---- MODULE Spec2Model ----
(***************************************************************************)
(* GNL VINA Scan: the SQLite persistence layer (DatabaseManager, the four  *)
(* repositories, the DatabaseProvider) and the validation utilities.       *)
(*                                                                         *)
(* JavaScript values are tagged tuples, so that `undefined`, `null`, the   *)
(* number 0 and the empty string stay four different values.               *)
(***************************************************************************)
EXTENDS Integers, Sequences, FiniteSets, TLC

VARIABLES
    db,            \* DatabaseManager.db: 0 is null, h > 0 is the handle conns[h]
    conns,         \* every connection opened so far: [open, fk] per handle
    schema,        \* tables and indexes that exist in the store file
    runs,          \* one entry per initialize() invocation: [pc, i, h]
    closing,       \* the handle a pending close() awaits closeAsync on, 0 if none
    ready,         \* lifecycle: an initialize() resolved and no close() since
    templates,     \* table templates, by template_id
    images,        \* table images, by img_id
    records,       \* table records, by id
    recog_events,  \* table recog_events, by id
    seq,           \* sqlite_sequence: largest id handed out, per table
    res,           \* how the last repository call settled
    vIn,           \* argument of the utility function under evaluation
    vOut,          \* its result, NotRun before it ran
    isReady,       \* DatabaseProvider: useState(false)
    isLoading,     \* DatabaseProvider: useState(true)
    error,         \* DatabaseProvider: useState(null)
    mounted        \* DatabaseProvider: "not yet", "mounted" or "unmounted"

mgrVars   == <<db, conns, schema, runs, closing, ready>>
storeVars == <<templates, images, records, recog_events, seq>>
utilVars  == <<vIn, vOut>>
provVars  == <<isReady, isLoading, error, mounted>>
vars      == <<db, conns, schema, runs, closing, ready, templates, images,
               records, recog_events, seq, res, vIn, vOut,
               isReady, isLoading, error, mounted>>

----------------------------------------------------------------------------
(* Bounds of the model *)

MaxHandles  == 2      \* connections opened over a run of the model
MaxRuns     == 1      \* initialize() invocations that may be in flight at once
MaxRecordId == 2      \* ids handed out by records' AUTOINCREMENT
MaxEventId  == 2      \* ids handed out by recog_events' AUTOINCREMENT
MaxRows     == 3      \* rows the store holds at once, over the four tables
MaxFieldRows == 2     \* rows the store holds at once when their columns vary
MaxNum      == 2      \* largest number offered as an input
MaxEvents   == 4      \* events handed to calculateConfidenceStats
MaxDim      == 2      \* rows and columns of a matrix, regions of a map
MaxCalls    == 2      \* initializeDatabase() runs of the provider at once

----------------------------------------------------------------------------
(* JavaScript values *)

Undefined == <<"undefined">>
Null      == <<"null">>
NaN       == <<"NaN">>
Num(n)    == <<"number", n>>
Str(s)    == <<"string", s>>

IsNum(v)  == v[1] = "number"
IsStr(v)  == v[1] = "string"

\* ToBoolean: undefined, null, NaN, 0 and "" are falsy
Falsy(v) ==
    \/ v = Undefined
    \/ v = Null
    \/ v = NaN
    \/ v = Num(0)
    \/ v = Str("")

\* a || b
Or(a, b) == IF Falsy(a) THEN b ELSE a

\* what SQLite binds for a parameter: undefined is bound as NULL
Bind(v) == IF v = Undefined THEN Null ELSE v

\* an object literal with only some fields given: the others are undefined
Obj(fields, given) ==
    [f \in fields |-> IF f \in DOMAIN given THEN given[f] ELSE Undefined]

----------------------------------------------------------------------------
(* The schema of createTables *)

Tables == <<"templates", "images", "records", "recog_events">>

createIndexes ==
    <<"idx_images_template_id", "idx_images_created_at",
      "idx_records_source_img_id", "idx_records_created_at",
      "idx_recog_events_img_id", "idx_recog_events_created_at">>

\* the statements of createTables in the order it awaits them
SchemaStmts == Tables \o createIndexes

AllSchema == {SchemaStmts[i] : i \in 1..Len(SchemaStmts)}

TemplateCols == {"template_id", "version", "roi_map_json"}

ImageCols ==
    {"img_id", "uri", "rectified_uri", "template_id", "homography",
     "blur", "glare", "created_at"}

RecordCols ==
    {"id", "date", "hour", "site", "form_type", "model_code",
     "input_L_mm", "input_W_mm", "input_T_mm", "input_count",
     "output_L_mm", "output_W_mm", "output_T_mm", "output_count",
     "qc_ok", "qc_ng", "operator_id", "batch_no", "line_id",
     "notes", "img_ref", "source_img_id", "model_version", "verified",
     "created_at"}

EventCols ==
    {"id", "img_id", "field_id", "raw_text", "value", "conf", "corrected",
     "created_at"}

\* the columns declared NOT NULL
NotNullCols(table) ==
    CASE table = "templates" -> {"version", "roi_map_json"}
      [] table = "images"    -> {"uri", "created_at"}
      [] table = "records"   -> {"created_at"}
      [] OTHER               -> {}

----------------------------------------------------------------------------
(* DatabaseManager: initialize, runMigrations, createTables, close *)

Runs == 1..MaxRuns

NoRun == [pc |-> "idle", i |-> 0, h |-> 0]

Settled(r) == runs[r].pc \in {"idle", "done", "failed"}

SetRun(r, pc, i, h) == runs' = [runs EXCEPT ![r] = [pc |-> pc, i |-> i, h |-> h]]

\* the catch blocks of createTables, runMigrations and initialize rethrow:
\* this.db keeps whatever it holds
Rethrow(r) == SetRun(r, "failed", 0, 0)

\* initialize() is called: openDatabaseAsync is awaited
Initialize(r) ==
    /\ Settled(r)
    /\ SetRun(r, "opening", 0, 0)
    /\ UNCHANGED <<db, conns, schema, closing, ready, storeVars, res, utilVars>>

\* openDatabaseAsync resolved: this.db is assigned, runMigrations finds it
\* set and awaits PRAGMA foreign_keys = ON on it
OpenResolves(r) ==
    /\ runs[r].pc = "opening"
    /\ Len(conns) < MaxHandles
    /\ conns' = Append(conns, [open |-> TRUE, fk |-> FALSE])
    /\ db' = Len(conns) + 1
    /\ SetRun(r, "pragma", 0, Len(conns) + 1)
    /\ UNCHANGED <<schema, closing, ready, storeVars, res, utilVars>>

\* openDatabaseAsync rejected
OpenRejects(r) ==
    /\ runs[r].pc = "opening"
    /\ Rethrow(r)
    /\ UNCHANGED <<db, conns, schema, closing, ready, storeVars, res, utilVars>>

\* the next statement of createTables: this.db is read again at each await
NextStmt(r, i) ==
    IF db = 0
    THEN Rethrow(r)
    ELSE SetRun(r, "exec", i, db)

\* the PRAGMA resolved: createTables starts
PragmaResolves(r) ==
    /\ runs[r].pc = "pragma"
    /\ conns[runs[r].h].open
    /\ conns' = [conns EXCEPT ![runs[r].h].fk = TRUE]
    /\ NextStmt(r, 1)
    /\ UNCHANGED <<db, schema, closing, ready, storeVars, res, utilVars>>

\* the PRAGMA rejected (a closed connection always rejects)
PragmaRejects(r) ==
    /\ runs[r].pc = "pragma"
    /\ Rethrow(r)
    /\ UNCHANGED <<db, conns, schema, closing, ready, storeVars, res, utilVars>>

\* a CREATE ... IF NOT EXISTS resolved; after the last one initialize() resolves
ExecResolves(r) ==
    /\ runs[r].pc = "exec"
    /\ conns[runs[r].h].open
    /\ schema' = schema \cup {SchemaStmts[runs[r].i]}
    /\ IF runs[r].i < Len(SchemaStmts)
       THEN NextStmt(r, runs[r].i + 1) /\ UNCHANGED ready
       ELSE SetRun(r, "done", 0, 0) /\ ready' = TRUE
    /\ UNCHANGED <<db, conns, closing, storeVars, res, utilVars>>

\* a CREATE statement rejected
ExecRejects(r) ==
    /\ runs[r].pc = "exec"
    /\ Rethrow(r)
    /\ UNCHANGED <<db, conns, schema, closing, ready, storeVars, res, utilVars>>

Settle(op, outcome, stmt, ret) ==
    res' = [op |-> op, outcome |-> outcome, stmt |-> stmt, ret |-> ret]

\* close() is called: with no handle it returns at once, otherwise it awaits
\* closeAsync on the handle
Close ==
    /\ closing = 0
    /\ IF db = 0
       THEN Settle("close", "ok", FALSE, Null) /\ UNCHANGED closing
       ELSE closing' = db /\ UNCHANGED res
    /\ UNCHANGED <<db, conns, schema, runs, ready, storeVars, utilVars>>

\* mutant of CloseResolves: the handle is closed but this.db is not reset
CloseResolvesKeepsDb ==
    /\ closing # 0
    /\ conns' = [conns EXCEPT ![closing].open = FALSE]
    /\ closing' = 0
    /\ ready' = FALSE
    /\ Settle("close", "ok", FALSE, Null)
    /\ UNCHANGED <<db, schema, runs, storeVars, utilVars>>

\* closeAsync resolved: this.db = null
CloseResolves ==
    /\ closing # 0
    /\ conns' = [conns EXCEPT ![closing].open = FALSE]
    /\ db' = 0
    /\ closing' = 0
    /\ ready' = FALSE
    /\ Settle("close", "ok", FALSE, Null)
    /\ UNCHANGED <<schema, runs, storeVars, utilVars>>

----------------------------------------------------------------------------
(* The store: SQLite statements over the four tables *)

Store ==
    [templates |-> templates, images |-> images, records |-> records,
     recog_events |-> recog_events, seq |-> seq]

Ok(S, ret)   == [outcome |-> "ok", store |-> S, ret |-> ret]
Fail(S, why) == [outcome |-> why, store |-> S, ret |-> Null]

With(f, k, v) == [x \in DOMAIN f \cup {k} |-> IF x = k THEN v ELSE f[x]]
Without(f, K) == [x \in DOMAIN f \ K |-> f[x]]

\* SET col = value for the columns of `set`, the others keep their value
Assign(row, set) ==
    [c \in DOMAIN row |-> IF c \in DOMAIN set THEN set[c] ELSE row[c]]

ViolatesNotNull(table, row) ==
    \E c \in NotNullCols(table) : row[c] = Null

\* FOREIGN KEY (col) REFERENCES parent: enforced only with foreign_keys = ON,
\* on INSERT and on an UPDATE that assigns the column
ViolatesFk(fk, v, parent) == fk /\ v # Null /\ v \notin DOMAIN parent

\* rows of a child table whose column col names key k
Referencing(child, col, k) == {x \in DOMAIN child : child[x][col] = k}

\* AUTOINCREMENT: one more than the largest id ever handed out
NextId(S, table) == S.seq[table] + 1

\* mutant of InsertTemplate: INSERT OR REPLACE, which never fails on the key
InsertOrReplaceTemplate(S, fk, row) ==
    Ok([S EXCEPT !.templates = With(@, row["template_id"], row)], Undefined)

InsertTemplate(S, fk, row) ==
    IF ViolatesNotNull("templates", row) THEN Fail(S, "constraint_notnull")
    ELSE IF row["template_id"] \in DOMAIN S.templates THEN Fail(S, "constraint_pk")
    ELSE Ok([S EXCEPT !.templates = With(@, row["template_id"], row)], Undefined)

UpdateTemplate(S, fk, k, set) ==
    IF k \notin DOMAIN S.templates THEN Ok(S, Undefined)
    ELSE IF ViolatesNotNull("templates", Assign(S.templates[k], set))
    THEN Fail(S, "constraint_notnull")
    ELSE Ok([S EXCEPT !.templates[k] = Assign(@, set)], Undefined)

\* mutant of DeleteTemplate: the reference from images is not enforced
DeleteTemplateUnchecked(S, fk, k) ==
    Ok([S EXCEPT !.templates = Without(@, {k})], Undefined)

DeleteTemplate(S, fk, k) ==
    IF fk /\ Referencing(S.images, "template_id", k) # {}
    THEN Fail(S, "constraint_fk")
    ELSE Ok([S EXCEPT !.templates = Without(@, {k})], Undefined)

InsertImage(S, fk, row) ==
    IF ViolatesNotNull("images", row) THEN Fail(S, "constraint_notnull")
    ELSE IF row["img_id"] \in DOMAIN S.images THEN Fail(S, "constraint_pk")
    ELSE IF ViolatesFk(fk, row["template_id"], S.templates)
    THEN Fail(S, "constraint_fk")
    ELSE Ok([S EXCEPT !.images = With(@, row["img_id"], row)], Undefined)

UpdateImage(S, fk, k, set) ==
    IF k \notin DOMAIN S.images THEN Ok(S, Undefined)
    ELSE LET row == Assign(S.images[k], set) IN
         IF ViolatesNotNull("images", row) THEN Fail(S, "constraint_notnull")
         ELSE IF "template_id" \in DOMAIN set
                 /\ ViolatesFk(fk, row["template_id"], S.templates)
         THEN Fail(S, "constraint_fk")
         ELSE Ok([S EXCEPT !.images[k] = row], Undefined)

\* mutant of DeleteImage: the references to the image are not enforced
DeleteImageUnchecked(S, fk, k) ==
    Ok([S EXCEPT !.images = Without(@, {k})], Undefined)

DeleteImage(S, fk, k) ==
    IF fk /\ (\/ Referencing(S.records, "source_img_id", k) # {}
              \/ Referencing(S.recog_events, "img_id", k) # {})
    THEN Fail(S, "constraint_fk")
    ELSE Ok([S EXCEPT !.images = Without(@, {k})], Undefined)

\* INSERT INTO records: the id column is not listed, AUTOINCREMENT fills it
InsertRecord(S, fk, vals) ==
    LET id  == NextId(S, "records")
        row == [c \in RecordCols |-> IF c = "id" THEN Num(id) ELSE vals[c]]
    IN  IF ViolatesNotNull("records", row) THEN Fail(S, "constraint_notnull")
        ELSE IF ViolatesFk(fk, row["source_img_id"], S.images)
        THEN Fail(S, "constraint_fk")
        ELSE Ok([S EXCEPT !.records = With(@, Num(id), row),
                          !.seq["records"] = id], Num(id))

UpdateRecord(S, fk, k, set) ==
    IF k \notin DOMAIN S.records THEN Ok(S, Undefined)
    ELSE LET row == Assign(S.records[k], set) IN
         IF ViolatesNotNull("records", row) THEN Fail(S, "constraint_notnull")
         ELSE IF "source_img_id" \in DOMAIN set
                 /\ ViolatesFk(fk, row["source_img_id"], S.images)
         THEN Fail(S, "constraint_fk")
         ELSE Ok([S EXCEPT !.records[k] = row], Undefined)

DeleteRecord(S, fk, k) ==
    Ok([S EXCEPT !.records = Without(@, {k})], Undefined)

InsertEvent(S, fk, vals) ==
    LET id  == NextId(S, "recog_events")
        row == [c \in EventCols |-> IF c = "id" THEN Num(id) ELSE vals[c]]
    IN  IF ViolatesFk(fk, row["img_id"], S.images)
        THEN Fail(S, "constraint_fk")
        ELSE Ok([S EXCEPT !.recog_events = With(@, Num(id), row),
                          !.seq["recog_events"] = id], Num(id))

UpdateEvent(S, fk, k, set) ==
    IF k \notin DOMAIN S.recog_events THEN Ok(S, Undefined)
    ELSE LET row == Assign(S.recog_events[k], set) IN
         IF "img_id" \in DOMAIN set /\ ViolatesFk(fk, row["img_id"], S.images)
         THEN Fail(S, "constraint_fk")
         ELSE Ok([S EXCEPT !.recog_events[k] = row], Undefined)

\* DELETE FROM recog_events WHERE <col> = k
DeleteEvents(S, fk, col, k) ==
    Ok([S EXCEPT !.recog_events =
            Without(@, Referencing(S.recog_events, col, k))], Undefined)

\* SELECT * FROM <table> WHERE <primary key> = k, then results[0] or null
SelectByKey(S, rows, k) ==
    Ok(S, IF k \in DOMAIN rows THEN rows[k] ELSE Null)

----------------------------------------------------------------------------
(* DatabaseManager.getDatabase, executeQuery, executeUpdate *)

\* foreign_keys of the connection this.db holds
Fk == db # 0 /\ conns[db].fk

\* getDatabase throws without a handle; otherwise the statement runs on the
\* handle and its outcome (rows, run result or SQLite's error) is passed on
Execute(op, table, out) ==
    /\ IF db = 0
       THEN Settle(op, "not_initialized", FALSE, Null) /\ UNCHANGED storeVars
       ELSE IF table \notin schema
       THEN Settle(op, "no_such_table", TRUE, Null) /\ UNCHANGED storeVars
       ELSE /\ Settle(op, out.outcome, TRUE, out.ret)
            /\ templates' = out.store.templates
            /\ images' = out.store.images
            /\ records' = out.store.records
            /\ recog_events' = out.store.recog_events
            /\ seq' = out.store.seq
    /\ UNCHANGED <<mgrVars, utilVars, provVars>>

\* a repository method that returns before it reaches the manager
ReturnEarly(op) ==
    /\ Settle(op, "ok", FALSE, Undefined)
    /\ UNCHANGED <<mgrVars, storeVars, utilVars, provVars>>

----------------------------------------------------------------------------
(* TemplatesRepository *)

TemplatesCreate(t) ==
    Execute("templates.create", "templates",
        InsertTemplate(Store, Fk, [c \in TemplateCols |-> Bind(t[c])]))

TemplatesFindById(k) ==
    Execute("templates.findById", "templates", SelectByKey(Store, templates, k))

TemplatesUpdate(t) ==
    Execute("templates.update", "templates",
        UpdateTemplate(Store, Fk, t["template_id"],
            [c \in {"version", "roi_map_json"} |-> Bind(t[c])]))

TemplatesDelete(k) ==
    Execute("templates.delete", "templates", DeleteTemplate(Store, Fk, k))

----------------------------------------------------------------------------
(* ImagesRepository *)

ImagesCreateParams(image) ==
    [c \in ImageCols |->
        IF c \in {"img_id", "uri", "created_at"}
        THEN Bind(image[c])
        ELSE Or(image[c], Null)]

ImagesCreate(image) ==
    Execute("images.create", "images",
        InsertImage(Store, Fk, ImagesCreateParams(image)))

ImagesFindById(k) ==
    Execute("images.findById", "images", SelectByKey(Store, images, k))

\* SET uri, rectified_uri, template_id, homography, blur, glare
ImagesUpdateParams(image) ==
    [c \in ImageCols \ {"img_id", "created_at"} |->
        IF c = "uri" THEN Bind(image[c]) ELSE Or(image[c], Null)]

ImagesUpdate(image) ==
    Execute("images.update", "images",
        UpdateImage(Store, Fk, image["img_id"], ImagesUpdateParams(image)))

ImagesDelete(k) ==
    Execute("images.delete", "images", DeleteImage(Store, Fk, k))

----------------------------------------------------------------------------
(* RecordsRepository *)

RecordsCreateParams(record) ==
    [c \in RecordCols \ {"id"} |->
        CASE c = "verified"   -> Or(record[c], Num(0))
          [] c = "created_at" -> Bind(record[c])
          [] OTHER            -> Or(record[c], Null)]

RecordsCreate(record) ==
    Execute("records.create", "records",
        InsertRecord(Store, Fk, RecordsCreateParams(record)))

RecordsFindById(k) ==
    Execute("records.findById", "records", SelectByKey(Store, records, k))

\* the entries of the payload that become "key = ?" of the SET clause
UpdateFields(payload) ==
    {c \in DOMAIN payload : c # "id" /\ payload[c] # Undefined}

RecordsUpdate(k, payload) ==
    IF UpdateFields(payload) = {}
    THEN ReturnEarly("records.update")
    ELSE Execute("records.update", "records",
             UpdateRecord(Store, Fk, k,
                 [c \in UpdateFields(payload) |-> payload[c]]))

RecordsMarkAsVerified(k) ==
    Execute("records.markAsVerified", "records",
        UpdateRecord(Store, Fk, k, [c \in {"verified"} |-> Num(1)]))

RecordsDelete(k) ==
    Execute("records.delete", "records", DeleteRecord(Store, Fk, k))

----------------------------------------------------------------------------
(* RecogEventsRepository *)

\* created_at falls back to new Date().toISOString(), here `now`
EventsCreateParams(event, now) ==
    [c \in EventCols \ {"id"} |->
        CASE c = "corrected"  -> Or(event[c], Num(0))
          [] c = "created_at" -> Or(event[c], now)
          [] OTHER            -> Or(event[c], Null)]

EventsCreate(event, now) ==
    Execute("recog_events.create", "recog_events",
        InsertEvent(Store, Fk, EventsCreateParams(event, now)))

EventsFindById(k) ==
    Execute("recog_events.findById", "recog_events",
        SelectByKey(Store, recog_events, k))

EventsUpdate(k, payload) ==
    IF UpdateFields(payload) = {}
    THEN ReturnEarly("recog_events.update")
    ELSE Execute("recog_events.update", "recog_events",
             UpdateEvent(Store, Fk, k,
                 [c \in UpdateFields(payload) |-> payload[c]]))

\* correctedValue ? "SET corrected = 1, value = ?" : "SET corrected = 1"
EventsMarkAsCorrected(k, correctedValue) ==
    Execute("recog_events.markAsCorrected", "recog_events",
        UpdateEvent(Store, Fk, k,
            IF Falsy(correctedValue)
            THEN [c \in {"corrected"} |-> Num(1)]
            ELSE [c \in {"corrected", "value"} |->
                     IF c = "corrected" THEN Num(1) ELSE correctedValue]))

EventsDelete(k) ==
    Execute("recog_events.delete", "recog_events",
        DeleteEvents(Store, Fk, "id", k))

EventsDeleteByImageId(k) ==
    Execute("recog_events.deleteByImageId", "recog_events",
        DeleteEvents(Store, Fk, "img_id", k))

----------------------------------------------------------------------------
(* The state after construction: no handle, an empty store file *)

NotRun == <<"not run">>

NoCall == [op |-> "none", outcome |-> "ok", stmt |-> FALSE, ret |-> Null]

InitManager ==
    /\ db = 0
    /\ conns = <<>>
    /\ schema = {}
    /\ runs = [r \in Runs |-> NoRun]
    /\ closing = 0
    /\ ready = FALSE

InitStore ==
    /\ templates = <<>>
    /\ images = <<>>
    /\ records = <<>>
    /\ recog_events = <<>>
    /\ seq = [t \in {"records", "recog_events"} |-> 0]

\* the DatabaseProvider before it is mounted: the values of its useState
InitProvider ==
    /\ isReady = FALSE
    /\ isLoading = TRUE
    /\ error = Null
    /\ mounted = "not yet"

InitUtil ==
    /\ vIn = NotRun
    /\ vOut = NotRun

Init ==
    /\ InitManager
    /\ InitStore
    /\ InitProvider
    /\ InitUtil
    /\ res = NoCall

----------------------------------------------------------------------------
(* Spec: the lifecycle of the storage handle, with repository calls made   *)
(* at any moment of it                                                     *)

T1 == Obj(TemplateCols,
          [template_id |-> Str("T1"), version |-> Str("1.0"),
           roi_map_json |-> Str("[]")])

EmptyPayload == Obj(RecordCols, <<>>)

\* repository calls that go through executeQuery / executeUpdate
ManagerCall ==
    \/ TemplatesCreate(T1)
    \/ TemplatesFindById(T1["template_id"])

\* the repository calls offered during the lifecycle
LifecycleCall ==
    \/ ManagerCall
    \/ RecordsUpdate(Num(1), EmptyPayload)

\* the manager driven directly: the provider takes no part
Lifecycle ==
    \/ \E r \in Runs : Initialize(r) /\ UNCHANGED provVars
    \/ \E r \in Runs : OpenResolves(r) /\ UNCHANGED provVars
    \/ \E r \in Runs : OpenRejects(r) /\ UNCHANGED provVars
    \/ \E r \in Runs : PragmaResolves(r) /\ UNCHANGED provVars
    \/ \E r \in Runs : PragmaRejects(r) /\ UNCHANGED provVars
    \/ \E r \in Runs : ExecResolves(r) /\ UNCHANGED provVars
    \/ \E r \in Runs : ExecRejects(r) /\ UNCHANGED provVars
    \/ Close /\ UNCHANGED provVars
    \/ CloseResolves /\ UNCHANGED provVars

Next ==
    \/ Lifecycle
    \/ LifecycleCall

Spec == Init /\ [][Next]_vars

----------------------------------------------------------------------------
(* SpecRepo: the repositories' mutations on an initialized store, with     *)
(* rows that reference each other                                          *)

\* the manager after initialize() resolved on a fresh process
InitReady ==
    /\ db = 1
    /\ conns = <<[open |-> TRUE, fk |-> TRUE]>>
    /\ schema = AllSchema
    /\ runs = [r \in Runs |-> IF r = 1 THEN [NoRun EXCEPT !.pc = "done"] ELSE NoRun]
    /\ closing = 0
    /\ ready = TRUE

InitRepo ==
    /\ InitReady
    /\ InitStore
    /\ InitProvider
    /\ InitUtil
    /\ res = NoCall

ImgIds == {Str("I1"), Str("I2")}

Image(id, given) ==
    Obj(ImageCols, [img_id |-> id, uri |-> Str("u"), created_at |-> Str("t1")] @@ given)

Record(given) == Obj(RecordCols, [created_at |-> Str("t1")] @@ given)

Event(given) == Obj(EventCols, given)

RepoImages ==
    {Image(id, <<>>) : id \in ImgIds}
        \cup {Image(id, [template_id |-> T1["template_id"]]) : id \in ImgIds}

RepoRecords ==
    {Record(<<>>)} \cup {Record([source_img_id |-> id]) : id \in ImgIds}

RepoRecordPayloads ==
    {Obj(RecordCols, [source_img_id |-> v]) : v \in ImgIds \cup {Null}}

RepoEvents ==
    {Event(<<>>)} \cup {Event([img_id |-> id]) : id \in ImgIds}

RepoEventPayloads ==
    {Obj(EventCols, [img_id |-> v]) : v \in ImgIds \cup {Null}}

\* room for one more row, and for one more id of the table
Rows ==
    Cardinality(DOMAIN templates) + Cardinality(DOMAIN images)
        + Cardinality(DOMAIN records) + Cardinality(DOMAIN recog_events)

HasRoom == Rows < MaxRows

RecordIds == {Num(n) : n \in 1..MaxRecordId}
EventIds  == {Num(n) : n \in 1..MaxEventId}

NextRepo ==
    \/ HasRoom /\ TemplatesCreate(T1)
    \/ TemplatesUpdate(T1)
    \/ TemplatesDelete(T1["template_id"])
    \/ \E image \in RepoImages : HasRoom /\ ImagesCreate(image)
    \/ \E image \in RepoImages : ImagesUpdate(image)
    \/ \E id \in ImgIds : ImagesDelete(id)
    \/ \E record \in RepoRecords :
          HasRoom /\ seq["records"] < MaxRecordId /\ RecordsCreate(record)
    \/ \E id \in RecordIds, payload \in RepoRecordPayloads :
          RecordsUpdate(id, payload)
    \/ \E id \in RecordIds : RecordsDelete(id)
    \/ \E event \in RepoEvents :
          /\ HasRoom /\ seq["recog_events"] < MaxEventId
          /\ EventsCreate(event, Str("t2"))
    \/ \E id \in EventIds, payload \in RepoEventPayloads :
          EventsUpdate(id, payload)
    \/ \E id \in EventIds : EventsDelete(id)
    \/ \E id \in ImgIds : EventsDeleteByImageId(id)

SpecRepo == InitRepo /\ [][NextRepo]_vars

----------------------------------------------------------------------------
(* SpecRows: the repositories' creates and updates on an initialized store, *)
(* with optional columns left out, null, zero, empty and filled            *)

T1v2 == [T1 EXCEPT !["version"] = Str("2.0")]

I1 == Str("I1")

RowImages ==
    {Image(I1, [blur |-> b]) : b \in {Undefined, Num(0), Num(1)}}

RowRecords ==
    {Record([qc_ng |-> n, notes |-> t]) :
        n \in {Undefined, Num(0), Num(1)}, t \in {Undefined, Str("")}}

RowRecordPayloads ==
    {Obj(RecordCols, [qc_ng |-> n, notes |-> t]) :
        n \in {Undefined, Null, Num(0), Num(1)},
        t \in {Undefined, Null, Str("")}}
    \cup {Obj(RecordCols, [id |-> Num(2)])}

RowEvents ==
    {Event([value |-> v]) : v \in {Undefined, Str(""), Str("v")}}

RowEventPayloads ==
    {Obj(EventCols, [value |-> v]) : v \in {Undefined, Null, Str("v")}}

Clock == {Str("t2")}

RowsHaveRoom == Rows < MaxFieldRows

NextRows ==
    \/ RowsHaveRoom /\ TemplatesCreate(T1)
    \/ TemplatesUpdate(T1v2)
    \/ \E image \in RowImages : RowsHaveRoom /\ ImagesCreate(image)
    \/ \E image \in RowImages : ImagesUpdate(image)
    \/ \E record \in RowRecords :
          RowsHaveRoom /\ seq["records"] < MaxRecordId /\ RecordsCreate(record)
    \/ \E id \in RecordIds, payload \in RowRecordPayloads :
          RecordsUpdate(id, payload)
    \/ \E id \in RecordIds : RecordsFindById(id)
    \/ \E event \in RowEvents, now \in Clock :
          /\ RowsHaveRoom /\ seq["recog_events"] < MaxEventId
          /\ EventsCreate(event, now)
    \/ \E id \in EventIds, payload \in RowEventPayloads :
          EventsUpdate(id, payload)

SpecRows == InitRepo /\ [][NextRows]_vars

----------------------------------------------------------------------------
(* Claims about the lifecycle, checked under Spec *)

OpenHandles == {h \in DOMAIN conns : conns[h].open}

\* C4: every repository operation invoked while the storage handle is not
\* ready (no initialize() has resolved yet, or close() ran since) fails with
\* the 'not initialized' error, issues no statement and leaves the rows as
\* they are.  Stated for the calls that reach the manager.
C4_NotReadyCallsRejected ==
    [][(~ready /\ ManagerCall) =>
          /\ res'.outcome = "not_initialized"
          /\ ~res'.stmt
          /\ UNCHANGED storeVars]_vars

C6_AtMostOneOpenHandle == Cardinality(OpenHandles) <= 1

\* C7: no statement of a repository call reaches the store before all four
\* tables and their indexes exist
C7_SchemaBeforeStatements ==
    [][(LifecycleCall /\ res'.stmt) => schema = AllSchema]_vars

\* C8: once initialize() has failed, and until an initialize() succeeds,
\* the manager holds no handle, so that repository calls fail as
\* 'not initialized'
C8_FailedInitLeavesNoHandle ==
    (/\ \A r \in Runs : Settled(r)
     /\ \E r \in Runs : runs[r].pc = "failed"
     /\ ~ready)
        => db = 0

----------------------------------------------------------------------------
(* Claims about referential integrity, checked under SpecRepo *)

NoOrphans ==
    /\ \A i \in DOMAIN images :
          images[i]["template_id"] # Null
              => images[i]["template_id"] \in DOMAIN templates
    /\ \A r \in DOMAIN records :
          records[r]["source_img_id"] # Null
              => records[r]["source_img_id"] \in DOMAIN images
    /\ \A e \in DOMAIN recog_events :
          recog_events[e]["img_id"] # Null
              => recog_events[e]["img_id"] \in DOMAIN images

\* C2: deleting an Image that a Record references fails with the foreign
\* key error and leaves every table as it was; deleteByImageId(id) removes
\* every RecognitionEvent that references id, and an Image that neither a
\* Record nor a RecognitionEvent references is deleted.
C2_ImageDeleteGuarded ==
    [][\A id \in ImgIds :
        /\ (ImagesDelete(id) /\ Referencing(records, "source_img_id", id) # {}) =>
              /\ res'.outcome = "constraint_fk"
              /\ UNCHANGED storeVars
        /\ EventsDeleteByImageId(id) =>
              /\ res'.outcome = "ok"
              /\ Referencing(recog_events', "img_id", id) = {}
              /\ UNCHANGED <<templates, images, records>>
        /\ (/\ ImagesDelete(id)
            /\ Referencing(records, "source_img_id", id) = {}
            /\ Referencing(recog_events, "img_id", id) = {}) =>
              /\ res'.outcome = "ok"
              /\ id \notin DOMAIN images'
              /\ UNCHANGED <<templates, records, recog_events>>]_vars

\* C2 witness: the delete of an Image that a Record references was rejected
C2_Witness ==
    /\ res.op = "images.delete"
    /\ res.outcome = "constraint_fk"
    /\ \E id \in DOMAIN images : Referencing(records, "source_img_id", id) # {}

\* a delete removes at most the rows it names, from its own table only
DeletesOwnRows ==
    /\ \A id \in {T1["template_id"]} : TemplatesDelete(id) =>
          /\ DOMAIN templates \ DOMAIN templates' \subseteq {id}
          /\ (id \notin DOMAIN templates' =>
                 Referencing(images, "template_id", id) = {})
          /\ UNCHANGED <<images, records, recog_events>>
    /\ \A id \in ImgIds : ImagesDelete(id) =>
          /\ DOMAIN images \ DOMAIN images' \subseteq {id}
          /\ UNCHANGED <<templates, records, recog_events>>
    /\ \A id \in RecordIds : RecordsDelete(id) =>
          /\ DOMAIN records \ DOMAIN records' \subseteq {id}
          /\ UNCHANGED <<templates, images, recog_events>>
    /\ \A id \in EventIds : EventsDelete(id) =>
          /\ DOMAIN recog_events \ DOMAIN recog_events' \subseteq {id}
          /\ UNCHANGED <<templates, images, records>>

\* C3: after any sequence of repository creates, updates and deletes on an
\* initialized store no row is orphaned; a Template is deleted only when no
\* Image references it, and no delete cascades to another table.
C3_NoOrphans == []NoOrphans /\ [][DeletesOwnRows]_vars

\* C3 witness: rows reference each other and the delete of the Template an
\* Image references was rejected
C3_Witness ==
    /\ res.op = "templates.delete"
    /\ res.outcome = "constraint_fk"
    /\ \E i \in DOMAIN images : images[i]["template_id"] \in DOMAIN templates
    /\ \E r \in DOMAIN records : records[r]["source_img_id"] \in DOMAIN images

----------------------------------------------------------------------------
(* Claims about the rows a create and an update leave, checked under SpecRows *)

\* the optional fields of an entity that the schema gives no default and the
\* repository no fallback: omitted, they are expected to be NULL
OptionalImageCols  == ImageCols \ {"img_id", "uri", "created_at"}
OptionalRecordCols == RecordCols \ {"id", "created_at", "verified"}
OptionalEventCols  == EventCols \ {"id", "corrected", "created_at"}

\* what findById returns for a field created as v: NULL when omitted, v itself
\* when supplied
Persisted(v) == IF v = Undefined THEN Null ELSE v

RoundTrips(found, entity, cols) ==
    \A c \in cols : found[c] = Persisted(entity[c])

\* C9: a create that succeeds, followed by findById, gives back every optional
\* field of the Image, Record or RecognitionEvent as it was created: NULL when
\* it was omitted, and exactly the supplied value (0 and "" included) when it
\* was supplied.
C9_CreateRoundTrips ==
    [][/\ \A image \in RowImages :
            (ImagesCreate(image) /\ res'.outcome = "ok") =>
                RoundTrips(SelectByKey(Store', images', image["img_id"]).ret,
                           image, OptionalImageCols)
       /\ \A record \in RowRecords :
            (RecordsCreate(record) /\ res'.outcome = "ok") =>
                RoundTrips(SelectByKey(Store', records', res'.ret).ret,
                           record, OptionalRecordCols)
       /\ \A event \in RowEvents, now \in Clock :
            (EventsCreate(event, now) /\ res'.outcome = "ok") =>
                RoundTrips(SelectByKey(Store', recog_events', res'.ret).ret,
                           event, OptionalEventCols)]_vars

\* the row after a partial update: a field absent from the payload keeps its
\* column, a field present (null included) is written; the key is not a field
Patched(row, payload, key) ==
    [c \in DOMAIN row |->
        IF c = key \/ payload[c] = Undefined THEN row[c] ELSE payload[c]]

\* the table after a partial update of the row under k, if there is one
PatchedTable(rows, k, payload, key) ==
    [x \in DOMAIN rows |->
        IF x = k THEN Patched(rows[x], payload, key) ELSE rows[x]]

NothingToWrite(payload, key) ==
    \A c \in DOMAIN payload : c = key \/ payload[c] = Undefined

\* C10: on every repository an update that succeeds writes exactly the fields
\* present in its payload (null as NULL), leaves the columns absent from the
\* payload, the other rows and the other tables as they were, and runs no
\* statement when the payload has nothing to write.
C10_UpdateWritesPayload ==
    [][/\ (TemplatesUpdate(T1v2) /\ res'.outcome = "ok") =>
            /\ templates' = PatchedTable(templates, T1v2["template_id"],
                                         T1v2, "template_id")
            /\ UNCHANGED <<images, records, recog_events, seq>>
       /\ \A image \in RowImages :
            (ImagesUpdate(image) /\ res'.outcome = "ok") =>
                /\ images' = PatchedTable(images, image["img_id"],
                                          image, "img_id")
                /\ UNCHANGED <<templates, records, recog_events, seq>>
       /\ \A id \in RecordIds, payload \in RowRecordPayloads :
            (RecordsUpdate(id, payload) /\ res'.outcome = "ok") =>
                /\ records' = PatchedTable(records, id, payload, "id")
                /\ UNCHANGED <<templates, images, recog_events, seq>>
                /\ NothingToWrite(payload, "id") => ~res'.stmt
       /\ \A id \in EventIds, payload \in RowEventPayloads :
            (EventsUpdate(id, payload) /\ res'.outcome = "ok") =>
                /\ recog_events' = PatchedTable(recog_events, id, payload, "id")
                /\ UNCHANGED <<templates, images, records, seq>>
                /\ NothingToWrite(payload, "id") => ~res'.stmt]_vars

----------------------------------------------------------------------------
(* The validation utilities *)

\* Number(value); the text offered to the model is never numeric, apart
\* from the empty string, which converts to 0
ToNumber(v) ==
    CASE v = Undefined -> NaN
      [] v = Null      -> Num(0)
      [] v = Str("")   -> Num(0)
      [] IsNum(v)      -> v
      [] OTHER         -> NaN

\* mutant of NotNonNegative: zero is refused as well (<= for <)
NotPositive(v) ==
    /\ v # Undefined
    /\ v # Null
    /\ \/ ToNumber(v) = NaN
       \/ ToNumber(v)[2] <= 0

\* value !== undefined && value !== null &&
\*     (isNaN(Number(value)) || Number(value) < 0)
NotNonNegative(v) ==
    /\ v # Undefined
    /\ v # Null
    /\ \/ ToNumber(v) = NaN
       \/ ToNumber(v)[2] < 0

\* ![0, 1].includes(Number(value))
NotFlag(v) == ToNumber(v) \notin {Num(0), Num(1)}

\* the message `${field} ${text}`
Msg(field, text) == <<field, text>>

numericFields ==
    <<"input_L_mm", "input_W_mm", "input_T_mm", "input_count",
      "output_L_mm", "output_W_mm", "output_T_mm", "output_count",
      "qc_ok", "qc_ng">>

\* numericFields.forEach from the i-th field on
RECURSIVE NumericErrors(_, _)
NumericErrors(record, i) ==
    IF i > Len(numericFields) THEN <<>>
    ELSE (IF NotNonNegative(record[numericFields[i]])
          THEN <<Msg(numericFields[i], "must be a non-negative number")>>
          ELSE <<>>) \o NumericErrors(record, i + 1)

validateRecord(record) ==
    (IF Falsy(record["created_at"])
     THEN <<Msg("created_at", "is required")>> ELSE <<>>)
    \o NumericErrors(record, 1)
    \o (IF record["verified"] # Undefined /\ NotFlag(record["verified"])
        THEN <<Msg("verified", "must be 0 or 1")>> ELSE <<>>)

----------------------------------------------------------------------------
(* SpecValidate: a utility function applied to a candidate *)

\* numbers a form may carry in a numeric field, besides leaving it out
Numbers == {Null, NaN} \cup {Num(n) : n \in -1..MaxNum}

GateFields == {"qc_ok", "qc_ng", "output_count"}

\* well-formed candidates in which the three fields of the hard gate vary
GateCandidates ==
    {Obj(RecordCols, g @@ [created_at |-> Str("t1")]) :
        g \in [GateFields -> {Undefined} \cup {Num(n) : n \in 0..MaxNum}]}

\* candidates in which one numeric field is given
FieldCandidates ==
    {Obj(RecordCols, [f \in {n} |-> v] @@ [created_at |-> c, verified |-> b]) :
        n \in {numericFields[i] : i \in 1..Len(numericFields)},
        v \in Numbers,
        c \in {Undefined, Null, Str(""), Str("t1")},
        b \in {Undefined, Null, NaN, Num(0), Num(1), Num(2)}}

Candidates == GateCandidates \cup FieldCandidates

InitValidate ==
    /\ InitManager
    /\ InitStore
    /\ InitProvider
    /\ res = NoCall
    /\ vIn \in Candidates
    /\ vOut = NotRun

ValidateRecord ==
    /\ vOut = NotRun
    /\ vOut' = validateRecord(vIn)
    /\ UNCHANGED <<vIn, mgrVars, storeVars, res, provVars>>

NextValidate == ValidateRecord

SpecValidate == InitValidate /\ [][NextValidate]_vars

----------------------------------------------------------------------------
(* Claims about validation, checked under SpecValidate *)

\* the machine-readable code of a reported issue
IssueCode(msg) ==
    CASE msg[2] = "is required"                   -> "REQUIRED"
      [] msg[2] = "must be a non-negative number" -> "NON_NEGATIVE"
      [] msg[2] = "must be 0 or 1"                -> "RANGE"
      [] OTHER                                    -> "UNKNOWN"

Reports(errors, code) == \E i \in 1..Len(errors) : IssueCode(errors[i]) = code

GatePresent(record) == \A f \in GateFields : IsNum(record[f])

GateHolds(record) ==
    /\ GatePresent(record)
    /\ record["qc_ok"][2] + record["qc_ng"][2] = record["output_count"][2]

\* C1: validation of a Record passes the hard gate only when qc_ok, qc_ng
\* and output_count are all present and qc_ok + qc_ng = output_count: when
\* the three are present and the sum differs, a SUM_MISMATCH error is among
\* the issues validation reports.
C1_HardGate ==
    (vOut # NotRun /\ GatePresent(vIn) /\ ~GateHolds(vIn))
        => Reports(vOut, "SUM_MISMATCH")

----------------------------------------------------------------------------
(* SpecFlags: the verify and the correction workflow next to the generic *)
(* update, on an initialized store                                     *)

FlagRecords ==
    {Record([verified |-> b]) : b \in {Undefined, Num(0), Num(1)}}

FlagRecordPayloads ==
    {Obj(RecordCols, [verified |-> b]) : b \in {Num(0), Num(1)}}
    \cup {Obj(RecordCols, [notes |-> Str("n")])}

FlagEvents ==
    {Event([conf |-> c, raw_text |-> t]) :
        c \in {Undefined, Num(1)}, t \in {Undefined, Str("r")}}

FlagEventPayloads ==
    {Obj(EventCols, [conf |-> Num(1)]),
     Obj(EventCols, [raw_text |-> Str("x")]),
     Obj(EventCols, [value |-> Str("v")])}

CorrectedValues == {Undefined, Str(""), Str("v")}

NextFlags ==
    \/ \E record \in FlagRecords :
          RowsHaveRoom /\ seq["records"] < MaxRecordId /\ RecordsCreate(record)
    \/ \E id \in RecordIds, payload \in FlagRecordPayloads :
          RecordsUpdate(id, payload)
    \/ \E id \in RecordIds : RecordsMarkAsVerified(id)
    \/ \E id \in RecordIds : RecordsDelete(id)
    \/ \E event \in FlagEvents, now \in Clock :
          /\ RowsHaveRoom /\ seq["recog_events"] < MaxEventId
          /\ EventsCreate(event, now)
    \/ \E id \in EventIds, payload \in FlagEventPayloads :
          EventsUpdate(id, payload)
    \/ \E id \in EventIds, v \in CorrectedValues :
          EventsMarkAsCorrected(id, v)
    \/ \E id \in EventIds : EventsDelete(id)

SpecFlags == InitRepo /\ [][NextFlags]_vars

----------------------------------------------------------------------------
(* Claims about the workflow flags, checked under SpecFlags *)

\* the row differs from `before` in at most the columns of `cols`
SameBut(after, before, cols) ==
    \A c \in DOMAIN before \ cols : after[c] = before[c]

\* C11: the verified flag of a Record is one-way: a Record is created with
\* verified 0 unless it is created with 1, markAsVerified sets the flag to 1
\* and changes no other column, and a Record whose verified is 1 keeps
\* verified 1 through every later repository operation that leaves it stored.
C11_VerifiedOneWay ==
    [][/\ \A record \in FlagRecords :
            (RecordsCreate(record) /\ res'.outcome = "ok") =>
                records'[res'.ret]["verified"] =
                    (IF record["verified"] = Num(1) THEN Num(1) ELSE Num(0))
       /\ \A id \in DOMAIN records :
            (RecordsMarkAsVerified(id) /\ res'.outcome = "ok") =>
                /\ records'[id]["verified"] = Num(1)
                /\ SameBut(records'[id], records[id], {"verified"})
       /\ \A id \in DOMAIN records \cap DOMAIN records' :
            records[id]["verified"] = Num(1) =>
                records'[id]["verified"] = Num(1)]_vars

\* C12: a RecognitionEvent keeps the conf and the raw_text it was created
\* with for as long as its row exists: no repository operation changes them.
C12_ConfAndRawTextKept ==
    [][\A id \in DOMAIN recog_events \cap DOMAIN recog_events' :
          /\ recog_events'[id]["conf"] = recog_events[id]["conf"]
          /\ recog_events'[id]["raw_text"] = recog_events[id]["raw_text"]]_vars

----------------------------------------------------------------------------
(* SELECT: what the store's engine answers to the repositories' queries *)

\* the texts the model stores in columns it compares, in the order of
\* SQLite's BINARY collation
Texts == <<"", "1.0", "2.0", "I1", "I2", "T1", "T2", "t1", "t2", "t3">>

TextRank(s) == CHOOSE i \in 1..Len(Texts) : Texts[i] = s

\* SQLite's order of values: NULL, then numbers, then text
SqlLess(a, b) ==
    LET class(v) == IF v = Null THEN 0 ELSE IF IsNum(v) THEN 1 ELSE 2
    IN  \/ class(a) < class(b)
        \/ class(a) = 1 /\ class(b) = 1 /\ a[2] < b[2]
        \/ class(a) = 2 /\ class(b) = 2 /\ TextRank(a[2]) < TextRank(b[2])

\* a comparison in a WHERE clause is not satisfied when an operand is NULL
SqlGt(a, b) == a # Null /\ b # Null /\ SqlLess(b, a)
SqlLt(a, b) == a # Null /\ b # Null /\ SqlLess(a, b)
SqlEq(a, b) == a # Null /\ b # Null /\ a = b

\* x BETWEEN lo AND hi
SqlBetween(x, lo, hi) ==
    /\ x # Null /\ lo # Null /\ hi # Null
    /\ ~SqlLess(x, lo)
    /\ ~SqlLess(hi, x)

\* ORDER BY <col> ASC / DESC, and a statement without ORDER BY
Asc(col)  == <<col, "ASC">>
Desc(col) == <<col, "DESC">>
NoOrder   == <<>>

\* ORDER BY ranks row a before row b
RanksBefore(orderBy, a, b) ==
    /\ orderBy # NoOrder
    /\ IF orderBy[2] = "DESC"
       THEN SqlLess(b[orderBy[1]], a[orderBy[1]])
       ELSE SqlLess(a[orderBy[1]], b[orderBy[1]])

\* the orders in which the engine may hand out the rows of `selected`: every
\* order that puts a row first whenever ORDER BY ranks it before another,
\* hence every order at all when the statement has no ORDER BY
ResultOrders(selected, orderBy) ==
    {q \in [1..Cardinality(selected) -> selected] :
        /\ \A i, j \in DOMAIN q : i # j => q[i] # q[j]
        /\ \A i, j \in DOMAIN q : i < j => ~RanksBefore(orderBy, q[j], q[i])}

RowsOf(rows) == {rows[k] : k \in DOMAIN rows}

----------------------------------------------------------------------------
(* ImagesRepository: finders *)

ImagesFindAll ==
    \E q \in ResultOrders(RowsOf(images), Desc("created_at")) :
        Execute("images.findAll", "images", Ok(Store, q))

\* mutant of QualityIssue: both conditions are required (AND for OR)
QualityIssueBoth(image, blurThreshold, glareThreshold) ==
    IF blurThreshold = Undefined /\ glareThreshold = Undefined
    THEN image["blur"] # Null /\ image["glare"] # Null
    ELSE /\ blurThreshold # Undefined => SqlGt(image["blur"], blurThreshold)
         /\ glareThreshold # Undefined => SqlGt(image["glare"], glareThreshold)

\* the WHERE clause findWithQualityIssues puts together
QualityIssue(image, blurThreshold, glareThreshold) ==
    IF blurThreshold = Undefined /\ glareThreshold = Undefined
    THEN image["blur"] # Null \/ image["glare"] # Null
    ELSE \/ blurThreshold # Undefined /\ SqlGt(image["blur"], blurThreshold)
         \/ glareThreshold # Undefined /\ SqlGt(image["glare"], glareThreshold)

ImagesFindWithQualityIssues(blurThreshold, glareThreshold) ==
    \E q \in ResultOrders(
                {image \in RowsOf(images) :
                    QualityIssue(image, blurThreshold, glareThreshold)},
                Desc("created_at")) :
        Execute("images.findWithQualityIssues", "images", Ok(Store, q))

----------------------------------------------------------------------------
(* SpecImages: images of varying quality and the finders over them *)

Scores == {Undefined, Num(1), Num(2)}

QualityImages ==
    {[Image(id, [blur |-> b, glare |-> g]) EXCEPT !["created_at"] = Str(t)] :
        id \in ImgIds, b \in Scores, g \in Scores, t \in {"t1", "t2"}}

Thresholds == {Undefined, Num(0), Num(1)}

NextImages ==
    \/ \E image \in QualityImages : RowsHaveRoom /\ ImagesCreate(image)
    \/ \E id \in ImgIds : ImagesDelete(id)
    \/ ImagesFindAll
    \/ \E blurThreshold \in Thresholds, glareThreshold \in Thresholds :
          ImagesFindWithQualityIssues(blurThreshold, glareThreshold)

SpecImages == InitRepo /\ [][NextImages]_vars

----------------------------------------------------------------------------
(* Claims about the image finders, checked under SpecImages *)

Returned(q) == {q[i] : i \in DOMAIN q}

Exceeds(v, threshold) == IsNum(v) /\ v[2] > threshold[2]

\* the Images the claim expects for the thresholds given
ExpectedQualityIssues(blurThreshold, glareThreshold) ==
    {image \in RowsOf(images) :
        IF blurThreshold = Undefined /\ glareThreshold = Undefined
        THEN image["blur"] # Null \/ image["glare"] # Null
        ELSE \/ /\ blurThreshold # Undefined
                /\ Exceeds(image["blur"], blurThreshold)
             \/ /\ glareThreshold # Undefined
                /\ Exceeds(image["glare"], glareThreshold)}

\* C13: findWithQualityIssues returns, each once, exactly the Images whose
\* blur or glare is non-null when no threshold is given, exactly those whose
\* blur exceeds the blur threshold or whose glare exceeds the glare threshold
\* when both are given, and exactly those exceeding the one threshold given.
C13_QualityIssues ==
    [][\A blurThreshold \in Thresholds, glareThreshold \in Thresholds :
          ImagesFindWithQualityIssues(blurThreshold, glareThreshold) =>
              /\ res'.outcome = "ok"
              /\ Returned(res'.ret) =
                     ExpectedQualityIssues(blurThreshold, glareThreshold)
              /\ Len(res'.ret) = Cardinality(Returned(res'.ret))]_vars

\* C13 witness: with two Images stored, the finder returned only one of them,
\* and that one for its glare alone: its blur is NULL
C13_Witness ==
    /\ res.op = "images.findWithQualityIssues"
    /\ Cardinality(DOMAIN images) = 2
    /\ Len(res.ret) = 1
    /\ res.ret[1]["blur"] = Null
    /\ res.ret[1]["glare"] # Null
    /\ \E id \in DOMAIN images : images[id]["glare"] # Null /\ images[id] # res.ret[1]

----------------------------------------------------------------------------
(* Aggregates of the store's engine *)

\* a number that need not be whole: sum / count
Ratio(sum, count) == <<"ratio", sum, count>>

\* COALESCE(v, 0)
Coalesce0(v) == IF v = Null THEN Num(0) ELSE v

RECURSIVE Total(_, _)
\* the sum of the numbers f gives to the keys of K
Total(f, K) ==
    IF K = {} THEN 0
    ELSE LET k == CHOOSE x \in K : TRUE
         IN  f[k][2] + Total(f, K \ {k})

\* SUM(...), AVG(...), MIN(...), MAX(...) over the values f gives to the rows
\* of K, none of them NULL: NULL when there is no row
SqlSum(f, K) == IF K = {} THEN Null ELSE Num(Total(f, K))
SqlAvg(f, K) == IF K = {} THEN Null ELSE Ratio(Total(f, K), Cardinality(K))
SqlMin(f, K) ==
    IF K = {} THEN Null
    ELSE f[CHOOSE k \in K : \A x \in K : f[k][2] <= f[x][2]]
SqlMax(f, K) ==
    IF K = {} THEN Null
    ELSE f[CHOOSE k \in K : \A x \in K : f[k][2] >= f[x][2]]

\* SUM(CASE WHEN <col> = 1 THEN 1 ELSE 0 END)
CountFlag(rows, K, col) ==
    SqlSum([k \in K |-> IF rows[k][col] = Num(1) THEN Num(1) ELSE Num(0)], K)

----------------------------------------------------------------------------
(* TemplatesRepository and RecogEventsRepository: finders and statistics *)

TemplatesFindAll ==
    \E q \in ResultOrders(RowsOf(templates), Asc("template_id")) :
        Execute("templates.findAll", "templates", Ok(Store, q))

TemplatesFindByVersion(version) ==
    \E q \in ResultOrders(
                {t \in RowsOf(templates) : SqlEq(t["version"], version)},
                NoOrder) :
        Execute("templates.findByVersion", "templates", Ok(Store, q))

EventsFindByImageId(imgId) ==
    \E q \in ResultOrders(
                {e \in RowsOf(recog_events) : SqlEq(e["img_id"], imgId)},
                Desc("created_at")) :
        Execute("recog_events.findByImageId", "recog_events", Ok(Store, q))

\* findAll() without limit and offset
EventsFindAll ==
    \E q \in ResultOrders(RowsOf(recog_events), Desc("created_at")) :
        Execute("recog_events.findAll", "recog_events", Ok(Store, q))

EventsFindLowConfidence(threshold) ==
    \E q \in ResultOrders(
                {e \in RowsOf(recog_events) : SqlLt(e["conf"], threshold)},
                Asc("conf")) :
        Execute("recog_events.findLowConfidence", "recog_events", Ok(Store, q))

EventsFindCorrected ==
    \E q \in ResultOrders(
                {e \in RowsOf(recog_events) : SqlEq(e["corrected"], Num(1))},
                Desc("created_at")) :
        Execute("recog_events.findCorrected", "recog_events", Ok(Store, q))

\* the one row the aggregate SELECT returns, also over an empty table
ConfidenceStats ==
    LET K    == DOMAIN recog_events
        conf == [k \in K |-> Coalesce0(recog_events[k]["conf"])]
    IN  [avg_confidence   |-> SqlAvg(conf, K),
         min_confidence   |-> SqlMin(conf, K),
         max_confidence   |-> SqlMax(conf, K),
         total_events     |-> Num(Cardinality(K)),
         corrected_events |-> CountFlag(recog_events, K, "corrected")]

\* results[0] || { ...zeros }: results[0] is an object, never falsy
EventsGetConfidenceStats ==
    Execute("recog_events.getConfidenceStats", "recog_events",
        Ok(Store, ConfidenceStats))

----------------------------------------------------------------------------
(* SpecFinders: events of varying confidence and age, templates, and the *)
(* finders and statistics over them                                     *)

T2 == [T1 EXCEPT !["template_id"] = Str("T2")]

Versions == {Str("1.0"), Str("2.0")}

FinderTemplates == {T1, T2}

FinderEvents ==
    {Event([conf |-> c, created_at |-> Str(t)]) :
        c \in {Undefined, Num(1)}, t \in {"t1", "t2"}}

FinderEventPayloads ==
    {Obj(EventCols, [conf |-> Num(0)])}

ConfThresholds == {Num(1), Num(2)}

NextFinders ==
    \/ \E t \in FinderTemplates : RowsHaveRoom /\ TemplatesCreate(t)
    \/ TemplatesFindAll
    \/ \E version \in Versions : TemplatesFindByVersion(version)
    \/ \E event \in FinderEvents, now \in Clock :
          /\ RowsHaveRoom /\ seq["recog_events"] < MaxEventId
          /\ EventsCreate(event, now)
    \/ \E id \in EventIds, payload \in FinderEventPayloads :
          EventsUpdate(id, payload)
    \/ \E id \in EventIds : EventsMarkAsCorrected(id, Undefined)
    \/ EventsFindAll
    \/ EventsFindByImageId(I1)
    \/ \E threshold \in ConfThresholds : EventsFindLowConfidence(threshold)
    \/ EventsFindCorrected
    \/ EventsGetConfidenceStats

SpecFinders == InitRepo /\ [][NextFinders]_vars

----------------------------------------------------------------------------
(* Claims about the finders and the statistics, checked under SpecFinders *)

SameRatio(a, b) == a[2] * b[3] = b[2] * a[3]

\* the events with a confidence
Measured == {k \in DOMAIN recog_events : recog_events[k]["conf"] # Null}

\* C14: getConfidenceStats counts every event in total_events and computes
\* avg_confidence, min_confidence and max_confidence over the events whose
\* conf is non-null only: an event without confidence is left out of them,
\* not counted as 0.
C14_ConfidenceStats ==
    [][EventsGetConfidenceStats =>
          LET conf == [k \in Measured |-> recog_events[k]["conf"]]
          IN  /\ res'.outcome = "ok"
              /\ res'.ret["total_events"] = Num(Cardinality(DOMAIN recog_events))
              /\ Measured # {} =>
                    /\ SameRatio(res'.ret["avg_confidence"],
                                 SqlAvg(conf, Measured))
                    /\ res'.ret["min_confidence"] = SqlMin(conf, Measured)
                    /\ res'.ret["max_confidence"] = SqlMax(conf, Measured)]_vars

NewestFirstFinders ==
    {"images.findAll", "images.findWithQualityIssues",
     "recog_events.findAll", "recog_events.findByImageId",
     "recog_events.findLowConfidence", "recog_events.findCorrected",
     "records.findAll", "records.findByDateRange", "records.findUnverified"}

KeyOrderFinders == {"templates.findAll", "templates.findByVersion"}

\* the rows of q are in the order of ORDER BY orderBy
InOrder(q, orderBy) ==
    \A i, j \in DOMAIN q : i < j => ~RanksBefore(orderBy, q[j], q[i])

\* C16: what findAll or a domain finder of the Image, Record or
\* RecognitionEvent repository returns is ordered newest-first by created_at,
\* and what a Template finder returns is in lexicographic template_id order.
C16_FinderOrder ==
    /\ (res.op \in NewestFirstFinders /\ res.outcome = "ok") =>
           InOrder(res.ret, Desc("created_at"))
    /\ (res.op \in KeyOrderFinders /\ res.outcome = "ok") =>
           InOrder(res.ret, Asc("template_id"))

----------------------------------------------------------------------------
(* RecordsRepository: finders and statistics *)

\* findAll() without limit and offset
RecordsFindAll ==
    \E q \in ResultOrders(RowsOf(records), Desc("created_at")) :
        Execute("records.findAll", "records", Ok(Store, q))

RecordsFindByDateRange(startDate, endDate) ==
    \E q \in ResultOrders(
                {r \in RowsOf(records) :
                    SqlBetween(r["created_at"], startDate, endDate)},
                Desc("created_at")) :
        Execute("records.findByDateRange", "records", Ok(Store, q))

RecordsFindUnverified ==
    \E q \in ResultOrders(
                {r \in RowsOf(records) : SqlEq(r["verified"], Num(0))},
                Desc("created_at")) :
        Execute("records.findUnverified", "records", Ok(Store, q))

\* the one row the aggregate SELECT returns, also when no record is in range
StatsByDateRange(startDate, endDate) ==
    LET K == {k \in DOMAIN records :
                 SqlBetween(records[k]["created_at"], startDate, endDate)}
    IN  [total_records    |-> Num(Cardinality(K)),
         verified_records |-> CountFlag(records, K, "verified"),
         total_qc_ok      |->
             SqlSum([k \in K |-> Coalesce0(records[k]["qc_ok"])], K),
         total_qc_ng      |->
             SqlSum([k \in K |-> Coalesce0(records[k]["qc_ng"])], K)]

\* results[0] || { ...zeros }: results[0] is an object, never falsy
RecordsGetStatsByDateRange(startDate, endDate) ==
    Execute("records.getStatsByDateRange", "records",
        Ok(Store, StatsByDateRange(startDate, endDate)))

----------------------------------------------------------------------------
(* SpecRecords: records of varying age and counts, and the finders and *)
(* statistics over them                                               *)

Dates == {Str("t1"), Str("t2"), Str("t3")}

StatRecords ==
    {[Record([qc_ok |-> a, qc_ng |-> b, verified |-> v])
         EXCEPT !["created_at"] = t] :
        a \in {Undefined, Num(1)}, b \in {Undefined, Num(2)},
        v \in {Undefined, Num(1)}, t \in {Str("t1"), Str("t2")}}

NextRecords ==
    \/ \E record \in StatRecords :
          RowsHaveRoom /\ seq["records"] < MaxRecordId /\ RecordsCreate(record)
    \/ \E id \in RecordIds : RecordsDelete(id)
    \/ RecordsFindAll
    \/ \E startDate \in Dates, endDate \in Dates :
          RecordsFindByDateRange(startDate, endDate)
    \/ RecordsFindUnverified
    \/ \E startDate \in Dates, endDate \in Dates :
          RecordsGetStatsByDateRange(startDate, endDate)

SpecRecords == InitRepo /\ [][NextRecords]_vars

----------------------------------------------------------------------------
(* Claims about the record statistics, checked under SpecRecords *)

\* the Records with startDate <= created_at <= endDate
InRange(startDate, endDate) ==
    {k \in DOMAIN records :
        /\ ~SqlLess(records[k]["created_at"], startDate)
        /\ ~SqlLess(endDate, records[k]["created_at"])}

\* NULL counted as zero
OrZero(v) == IF v = Null THEN 0 ELSE v[2]

\* C15: getStatsByDateRange(start, end) returns, over the Records with
\* start <= created_at <= end, their count as total_records, the count of
\* those with verified = 1 as verified_records and the sums of qc_ok and of
\* qc_ng, NULL counted as zero, as total_qc_ok and total_qc_ng; all four are
\* the number 0 when no Record lies in the range.
C15_StatsByDateRange ==
    [][\A startDate \in Dates, endDate \in Dates :
          RecordsGetStatsByDateRange(startDate, endDate) =>
              LET K == InRange(startDate, endDate)
              IN  /\ res'.outcome = "ok"
                  /\ res'.ret["total_records"] = Num(Cardinality(K))
                  /\ res'.ret["verified_records"] =
                        Num(Cardinality(
                            {k \in K : records[k]["verified"] = Num(1)}))
                  /\ res'.ret["total_qc_ok"] =
                        Num(Total([k \in K |-> Num(OrZero(records[k]["qc_ok"]))], K))
                  /\ res'.ret["total_qc_ng"] =
                        Num(Total([k \in K |-> Num(OrZero(records[k]["qc_ng"]))], K))]_vars

----------------------------------------------------------------------------
(* SpecReject: mutations that break a key, a reference or a NOT NULL *)
(* column, next to those that do not                                *)

\* entities and payloads without a value for a NOT NULL column
Unversioned == [T1 EXCEPT !["version"] = Undefined]

Undated == Obj(RecordCols, <<>>)

Unlocated == [Image(I1, <<>>) EXCEPT !["uri"] = Undefined]

Undate == Obj(RecordCols, [created_at |-> Null])

RejectTemplates == {T1, Unversioned}

RejectImages ==
    {Image(I1, <<>>), Image(I1, [template_id |-> T1["template_id"]]), Unlocated}

RejectRecords == {Record(<<>>), Record([source_img_id |-> I1]), Undated}

RejectPayloads == {Obj(RecordCols, [source_img_id |-> I1]), Undate}

RejectEvents == {Event(<<>>), Event([img_id |-> I1])}

RejectEventPayloads == {Obj(EventCols, [img_id |-> I1])}

NextReject ==
    \/ \E t \in RejectTemplates : RowsHaveRoom /\ TemplatesCreate(t)
    \/ \E t \in RejectTemplates : TemplatesUpdate(t)
    \/ TemplatesDelete(T1["template_id"])
    \/ \E image \in RejectImages : RowsHaveRoom /\ ImagesCreate(image)
    \/ \E image \in RejectImages : ImagesUpdate(image)
    \/ ImagesDelete(I1)
    \/ \E record \in RejectRecords :
          RowsHaveRoom /\ seq["records"] < MaxRecordId /\ RecordsCreate(record)
    \/ \E id \in RecordIds, payload \in RejectPayloads :
          RecordsUpdate(id, payload)
    \/ \E id \in RecordIds : RecordsDelete(id)
    \/ \E event \in RejectEvents, now \in Clock :
          /\ RowsHaveRoom /\ seq["recog_events"] < MaxEventId
          /\ EventsCreate(event, now)
    \/ \E id \in EventIds, payload \in RejectEventPayloads :
          EventsUpdate(id, payload)
    \/ EventsDeleteByImageId(I1)

SpecReject == InitRepo /\ [][NextReject]_vars

----------------------------------------------------------------------------
(* Claims about constraint violations, checked under SpecReject *)

ConstraintErrors == {"constraint_pk", "constraint_notnull", "constraint_fk"}

\* the call rejected with the store's constraint error and no row changed
RejectedUnchanged ==
    /\ res'.outcome \in ConstraintErrors
    /\ UNCHANGED storeVars

Missing(v) == v = Undefined \/ v = Null

\* the value names a row that the parent table does not hold
Dangling(v, parent) == ~Missing(v) /\ v \notin DOMAIN parent

\* C17: a repository mutation that violates a constraint of the store (a
\* Template or Image created under a primary key already stored, a NOT NULL
\* column given no value, a foreign key naming a row that is not stored, a
\* referenced row deleted) rejects with the store's error, and the stored rows
\* are the same as before the call.
C17_ConstraintViolationsReject ==
    [][/\ \A t \in RejectTemplates :
            (/\ TemplatesCreate(t)
             /\ \/ t["template_id"] \in DOMAIN templates
                \/ Missing(t["version"])) => RejectedUnchanged
       /\ \A t \in RejectTemplates :
            (/\ TemplatesUpdate(t)
             /\ t["template_id"] \in DOMAIN templates
             /\ Missing(t["version"])) => RejectedUnchanged
       /\ \A image \in RejectImages :
            (/\ ImagesCreate(image)
             /\ \/ image["img_id"] \in DOMAIN images
                \/ Missing(image["uri"])
                \/ Dangling(image["template_id"], templates)) => RejectedUnchanged
       /\ \A image \in RejectImages :
            (/\ ImagesUpdate(image)
             /\ image["img_id"] \in DOMAIN images
             /\ \/ Missing(image["uri"])
                \/ Dangling(image["template_id"], templates)) => RejectedUnchanged
       /\ \A record \in RejectRecords :
            (/\ RecordsCreate(record)
             /\ \/ Missing(record["created_at"])
                \/ Dangling(record["source_img_id"], images)) => RejectedUnchanged
       /\ \A id \in DOMAIN records, payload \in RejectPayloads :
            (/\ RecordsUpdate(id, payload)
             /\ \/ payload["created_at"] = Null
                \/ Dangling(payload["source_img_id"], images)) => RejectedUnchanged
       /\ \A event \in RejectEvents, now \in Clock :
            (/\ EventsCreate(event, now)
             /\ Dangling(event["img_id"], images)) => RejectedUnchanged
       /\ \A id \in DOMAIN recog_events, payload \in RejectEventPayloads :
            (/\ EventsUpdate(id, payload)
             /\ Dangling(payload["img_id"], images)) => RejectedUnchanged
       /\ \A id \in DOMAIN templates :
            (/\ TemplatesDelete(id)
             /\ Referencing(images, "template_id", id) # {}) => RejectedUnchanged
       /\ \A id \in DOMAIN images :
            (/\ ImagesDelete(id)
             /\ \/ Referencing(records, "source_img_id", id) # {}
                \/ Referencing(recog_events, "img_id", id) # {})
                    => RejectedUnchanged]_vars

\* C17 witness: the create of a Template whose key is already stored was
\* rejected with the primary-key error
C17_Witness ==
    /\ res.op = "templates.create"
    /\ res.outcome = "constraint_pk"
    /\ T1["template_id"] \in DOMAIN templates

----------------------------------------------------------------------------
(* Claims about the numeric fields of a Record, checked under SpecValidate *)

HasMsg(errors, field, text) ==
    \E i \in 1..Len(errors) : errors[i] = Msg(field, text)

NumericFieldSet == {numericFields[i] : i \in 1..Len(numericFields)}

\* C18: for each of the ten numeric fields of a Record, validateRecord reports
\* a non-negativity error for the field when its value is a negative number,
\* whichever field it is, and none when its value is zero or positive.
C18_NonNegative ==
    vOut # NotRun =>
        \A f \in NumericFieldSet :
            IsNum(vIn[f]) =>
                (HasMsg(vOut, f, "must be a non-negative number")
                    <=> vIn[f][2] < 0)

\* C18 witness: a candidate with a negative qc_ng was validated and the error
\* names qc_ng
C18_Witness ==
    /\ vOut # NotRun
    /\ vIn["qc_ng"] = Num(-1)
    /\ vOut = <<Msg("qc_ng", "must be a non-negative number")>>

----------------------------------------------------------------------------
(* validateImage, validateRecogEvent *)

\* mutant of validateImage: uri is not required
validateImageWithoutUri(image) ==
    (IF Falsy(image["img_id"])
     THEN <<Msg("img_id", "is required")>> ELSE <<>>)
    \o (IF Falsy(image["created_at"])
        THEN <<Msg("created_at", "is required")>> ELSE <<>>)
    \o (IF NotNonNegative(image["blur"])
        THEN <<Msg("blur", "must be a non-negative number")>> ELSE <<>>)
    \o (IF NotNonNegative(image["glare"])
        THEN <<Msg("glare", "must be a non-negative number")>> ELSE <<>>)

validateImage(image) ==
    (IF Falsy(image["img_id"])
     THEN <<Msg("img_id", "is required")>> ELSE <<>>)
    \o (IF Falsy(image["uri"])
        THEN <<Msg("uri", "is required")>> ELSE <<>>)
    \o (IF Falsy(image["created_at"])
        THEN <<Msg("created_at", "is required")>> ELSE <<>>)
    \o (IF NotNonNegative(image["blur"])
        THEN <<Msg("blur", "must be a non-negative number")>> ELSE <<>>)
    \o (IF NotNonNegative(image["glare"])
        THEN <<Msg("glare", "must be a non-negative number")>> ELSE <<>>)

\* isNaN(conf) || conf < 0 || conf > 1, for conf = Number(event.conf)
NotConfidence(v) ==
    \/ ToNumber(v) = NaN
    \/ ToNumber(v)[2] < 0
    \/ ToNumber(v)[2] > 1

\* mutant of validateRecogEvent: the confidence 1 is refused (>= for >)
validateRecogEventBelowOne(event) ==
    (IF /\ event["conf"] # Undefined
        /\ event["conf"] # Null
        /\ (NotConfidence(event["conf"]) \/ ToNumber(event["conf"])[2] >= 1)
     THEN <<Msg("confidence", "must be between 0 and 1")>> ELSE <<>>)
    \o (IF event["corrected"] # Undefined /\ NotFlag(event["corrected"])
        THEN <<Msg("corrected", "must be 0 or 1")>> ELSE <<>>)

validateRecogEvent(event) ==
    (IF /\ event["conf"] # Undefined
        /\ event["conf"] # Null
        /\ NotConfidence(event["conf"])
     THEN <<Msg("confidence", "must be between 0 and 1")>> ELSE <<>>)
    \o (IF event["corrected"] # Undefined /\ NotFlag(event["corrected"])
        THEN <<Msg("corrected", "must be 0 or 1")>> ELSE <<>>)

----------------------------------------------------------------------------
(* SpecValidateAll: each validator applied to a candidate of its entity *)

Strings(s) == {Undefined, Null, Str(""), Str(s)}

ImageCandidates ==
    {Obj(ImageCols, [img_id |-> i, uri |-> u, created_at |-> c,
                     blur |-> b, glare |-> g]) :
        i \in Strings("I1"), u \in Strings("u"), c \in Strings("t1"),
        b \in {Undefined} \cup Numbers, g \in {Undefined, Num(-1), Num(1)}}

Flags == {Undefined, Null, NaN} \cup {Num(n) : n \in -1..MaxNum}

EventCandidates ==
    {Obj(EventCols, [conf |-> c, corrected |-> b, value |-> v]) :
        c \in Flags, b \in Flags, v \in {Undefined, Str("v")}}

InitValidateAll ==
    /\ InitManager
    /\ InitStore
    /\ InitProvider
    /\ res = NoCall
    /\ vIn \in Candidates \cup ImageCandidates \cup EventCandidates
    /\ vOut = NotRun

IsRecord(candidate) == DOMAIN candidate = RecordCols
IsImage(candidate)  == DOMAIN candidate = ImageCols
IsEvent(candidate)  == DOMAIN candidate = EventCols

ValidateRecordCandidate ==
    /\ IsRecord(vIn)
    /\ ValidateRecord

ValidateImage ==
    /\ IsImage(vIn)
    /\ vOut = NotRun
    /\ vOut' = validateImage(vIn)
    /\ UNCHANGED <<vIn, mgrVars, storeVars, res, provVars>>

ValidateRecogEvent ==
    /\ IsEvent(vIn)
    /\ vOut = NotRun
    /\ vOut' = validateRecogEvent(vIn)
    /\ UNCHANGED <<vIn, mgrVars, storeVars, res, provVars>>

NextValidateAll ==
    \/ ValidateRecordCandidate
    \/ ValidateImage
    \/ ValidateRecogEvent

SpecValidateAll == InitValidateAll /\ [][NextValidateAll]_vars

----------------------------------------------------------------------------
(* Claims about required fields and ranges, checked under SpecValidateAll *)

\* the fields an entity must carry
RequiredFields(candidate) ==
    IF IsRecord(candidate) THEN {"created_at"}
    ELSE IF IsImage(candidate) THEN {"img_id", "uri", "created_at"}
    ELSE {}

Absent(v) == v = Undefined \/ v = Null

\* absent, or present as the empty string
Blank(v) == Absent(v) \/ v = Str("")

\* the field a message is about: the confidence message is about conf
About(msg) == IF msg[1] = "confidence" THEN "conf" ELSE msg[1]

Mentions(errors, field) ==
    \E i \in 1..Len(errors) : About(errors[i]) = field

\* C19: validation returns its issues and treats absence as an error for
\* required fields only: a Record candidate yields a required-field error
\* exactly when created_at is absent, an Image candidate one for each of
\* img_id, uri and created_at that is absent, and the absence of any other
\* field of a Record, Image or RecognitionEvent yields no issue.
C19_RequiredExactlyWhenAbsent ==
    vOut # NotRun =>
        \A f \in DOMAIN vIn :
            IF f \in RequiredFields(vIn)
            THEN HasMsg(vOut, f, "is required") <=> Absent(vIn[f])
            ELSE /\ ~HasMsg(vOut, f, "is required")
                 /\ Absent(vIn[f]) => ~Mentions(vOut, f)

\* C19 as amended: the required-field error is reported exactly when the
\* required field is absent or the empty string; the rest as in C19.
C19_RequiredExactlyWhenBlank ==
    vOut # NotRun =>
        \A f \in DOMAIN vIn :
            IF f \in RequiredFields(vIn)
            THEN HasMsg(vOut, f, "is required") <=> Blank(vIn[f])
            ELSE /\ ~HasMsg(vOut, f, "is required")
                 /\ Absent(vIn[f]) => ~Mentions(vOut, f)

\* C19 witness: an Image candidate without img_id and without scores, with
\* uri and created_at, was validated: the one issue is the missing img_id
C19_Witness ==
    /\ IsImage(vIn)
    /\ vIn["img_id"] = Undefined
    /\ vIn["uri"] = Str("u")
    /\ vIn["blur"] = Undefined
    /\ vOut # NotRun
    /\ vOut = <<Msg("img_id", "is required")>>

Present(v) == ~Absent(v)

InUnitInterval(v) == IsNum(v) /\ 0 <= v[2] /\ v[2] <= 1

IsFlag(v) == v = Num(0) \/ v = Num(1)

\* C20: validateRecogEvent reports an error exactly when conf is present and
\* is not in the closed interval [0,1] or corrected is present and is not
\* exactly 0 or 1; validateRecord reports an error for verified when it is
\* present and is not exactly 0 or 1.
C20_RangesAndFlags ==
    vOut # NotRun =>
        /\ IsEvent(vIn) =>
              /\ vOut # <<>> <=>
                    \/ Present(vIn["conf"]) /\ ~InUnitInterval(vIn["conf"])
                    \/ Present(vIn["corrected"]) /\ ~IsFlag(vIn["corrected"])
              /\ Mentions(vOut, "conf") <=>
                    Present(vIn["conf"]) /\ ~InUnitInterval(vIn["conf"])
              /\ Mentions(vOut, "corrected") <=>
                    Present(vIn["corrected"]) /\ ~IsFlag(vIn["corrected"])
        /\ (IsRecord(vIn) /\ Present(vIn["verified"])
                /\ ~IsFlag(vIn["verified"])) => Mentions(vOut, "verified")

\* C20 witness: an event with confidence 1 and corrected 2 was validated:
\* the confidence is accepted, the flag is not
C20_Witness ==
    /\ IsEvent(vIn)
    /\ vIn["conf"] = Num(1)
    /\ vIn["corrected"] = Num(2)
    /\ vOut # NotRun
    /\ vOut = <<Msg("corrected", "must be 0 or 1")>>

----------------------------------------------------------------------------
(* calculateImageQuality *)

Max(a, b) == IF a >= b THEN a ELSE b
Min(a, b) == IF a <= b THEN a ELSE b

\* mutant of ComponentScore: the score is not kept from going below 0
ComponentScoreUnclamped(v) ==
    IF Falsy(v) THEN 1 ELSE 1 - v[2]

\* image.blur ? Math.max(0, 1 - image.blur) : 1.0
ComponentScore(v) ==
    IF Falsy(v) THEN 1 ELSE Max(0, 1 - v[2])

calculateImageQuality(image) ==
    IF Falsy(image["blur"]) /\ Falsy(image["glare"])
    THEN Num(1)
    ELSE Num(Min(ComponentScore(image["blur"]),
                 ComponentScore(image["glare"])))

----------------------------------------------------------------------------
(* SpecQuality: calculateImageQuality applied to an image *)

\* a score of an image: left out, null, or a number
ScoreValues == {Undefined, Null} \cup {Num(n) : n \in -1..MaxNum}

ScoredImages ==
    {Image(id, [blur |-> b, glare |-> g]) :
        id \in ImgIds, b \in ScoreValues, g \in ScoreValues}

InitQuality ==
    /\ InitManager
    /\ InitStore
    /\ InitProvider
    /\ res = NoCall
    /\ vIn \in ScoredImages
    /\ vOut = NotRun

CalculateImageQuality ==
    /\ vOut = NotRun
    /\ vOut' = calculateImageQuality(vIn)
    /\ UNCHANGED <<vIn, mgrVars, storeVars, res, provVars>>

NextQuality == CalculateImageQuality

SpecQuality == InitQuality /\ [][NextQuality]_vars

----------------------------------------------------------------------------
(* Claims about the quality score, checked under SpecQuality *)

\* what a component contributes according to the claim: 1 when absent
Contribution(v) == IF Absent(v) THEN 1 ELSE Max(0, 1 - v[2])

\* b is a score at least as bad as a, or a is absent
NoBetter(a, b) == Absent(a) \/ (IsNum(a) /\ IsNum(b) /\ a[2] <= b[2])

\* C21: calculateImageQuality(image) is min(max(0, 1 - blur), max(0, 1 -
\* glare)) with 1 for an absent blur or glare, for every combination of absent
\* and present; it is 1 when both are absent, and an image whose blur and
\* glare are no lower never has a higher score.
C21_QualityScore ==
    vOut # NotRun =>
        /\ vOut = Num(Min(Contribution(vIn["blur"]),
                          Contribution(vIn["glare"])))
        /\ (Absent(vIn["blur"]) /\ Absent(vIn["glare"])) => vOut = Num(1)
        /\ \A other \in ScoredImages :
              (/\ Present(vIn["blur"]) => NoBetter(vIn["blur"], other["blur"])
               /\ Present(vIn["glare"]) => NoBetter(vIn["glare"], other["glare"])
               /\ Present(other["blur"]) => Present(vIn["blur"])
               /\ Present(other["glare"]) => Present(vIn["glare"]))
                  => calculateImageQuality(other)[2] <= vOut[2]

\* C21 witness: an image with blur 2 and no glare was scored 0: the blur term
\* is kept at 0 and the absent glare counts as 1
C21_Witness ==
    /\ vOut = Num(0)
    /\ vIn["blur"] = Num(2)
    /\ vIn["glare"] = Undefined

----------------------------------------------------------------------------
(* calculateConfidenceStats *)

\* a confidence k/10
Tenths(k) == Ratio(k, 10)

RatioLess(a, b) == a[2] * b[3] < b[2] * a[3]

\* const threshold = 0.8
ConfidenceThreshold == Tenths(8)

\* mutant of Confidences: an event without a confidence counts as 0
ConfidencesZeroed(events) ==
    [i \in DOMAIN events |->
        IF events[i]["conf"] = Undefined \/ events[i]["conf"] = Null
        THEN Tenths(0) ELSE events[i]["conf"]]

\* conf !== undefined && conf !== null
HasConfidence(conf) == conf # Undefined /\ conf # Null

\* events.map(e => e.conf).filter(...)
Confidences(events) ==
    SelectSeq([i \in DOMAIN events |-> events[i]["conf"]], HasConfidence)

RECURSIVE SumOf(_)
\* confidences.reduce((sum, conf) => sum + conf, 0), in tenths
SumOf(confidences) ==
    IF confidences = <<>> THEN 0
    ELSE Head(confidences)[2] + SumOf(Tail(confidences))

RECURSIVE MathMin(_)
\* Math.min(...confidences) of a sequence that is not empty
MathMin(confidences) ==
    IF Len(confidences) = 1 THEN confidences[1]
    ELSE LET rest == MathMin(Tail(confidences))
         IN  IF RatioLess(rest, Head(confidences))
             THEN rest ELSE Head(confidences)

RECURSIVE MathMax(_)
\* Math.max(...confidences) of a sequence that is not empty
MathMax(confidences) ==
    IF Len(confidences) = 1 THEN confidences[1]
    ELSE LET rest == MathMax(Tail(confidences))
         IN  IF RatioLess(Head(confidences), rest)
             THEN rest ELSE Head(confidences)

BelowThreshold(conf) == RatioLess(conf, ConfidenceThreshold)

\* the object calculateConfidenceStats returns
Stats(fields) == <<"object", fields>>

calculateConfidenceStats(events) ==
    LET confidences == Confidences(events)
    IN  IF Len(confidences) = 0
        THEN Stats([average |-> Ratio(0, 1), minimum |-> Ratio(0, 1),
                    maximum |-> Ratio(0, 1), belowThreshold |-> 0,
                    threshold |-> ConfidenceThreshold])
        ELSE Stats([average |-> Ratio(SumOf(confidences),
                                      10 * Len(confidences)),
                    minimum |-> MathMin(confidences),
                    maximum |-> MathMax(confidences),
                    belowThreshold |->
                        Len(SelectSeq(confidences, BelowThreshold)),
                    threshold |-> ConfidenceThreshold])

----------------------------------------------------------------------------
(* SpecStats: calculateConfidenceStats applied to a sequence of events *)

ConfidenceValues == {Undefined, Null, Tenths(2), Tenths(4), Tenths(8), Tenths(9)}

EventSequences ==
    UNION {[1..n -> {Event([conf |-> c]) : c \in ConfidenceValues}] :
              n \in 0..MaxEvents}

InitStats ==
    /\ InitManager
    /\ InitStore
    /\ InitProvider
    /\ res = NoCall
    /\ vIn \in EventSequences
    /\ vOut = NotRun

CalculateConfidenceStats ==
    /\ vOut = NotRun
    /\ vOut' = calculateConfidenceStats(vIn)
    /\ UNCHANGED <<vIn, mgrVars, storeVars, res, provVars>>

NextStats == CalculateConfidenceStats

SpecStats == InitStats /\ [][NextStats]_vars

----------------------------------------------------------------------------
(* Claims about the confidence statistics, checked under SpecStats *)

\* the positions of the events that carry a confidence
WithConfidence(events) == {i \in DOMAIN events : Present(events[i]["conf"])}

\* the spec's example: confidences 0.9, null, 0.4, 0.2
ExampleEvents ==
    <<Event([conf |-> Tenths(9)]), Event([conf |-> Null]),
      Event([conf |-> Tenths(4)]), Event([conf |-> Tenths(2)])>>

\* C22: calculateConfidenceStats returns the average, the minimum and the
\* maximum of the confidences that are present (an absent or null confidence
\* is left out, not counted as 0), and belowThreshold is the number of present
\* confidences strictly below 0.8; for [0.9, null, 0.4, 0.2] the average is
\* (0.9 + 0.4 + 0.2) / 3 and belowThreshold is 2.
C22_ConfidenceStats ==
    (vOut # NotRun /\ WithConfidence(vIn) # {}) =>
        LET P == WithConfidence(vIn)
            conf == [i \in P |-> vIn[i]["conf"]]
        IN  /\ SameRatio(vOut[2].average,
                         Ratio(Total(conf, P), 10 * Cardinality(P)))
            /\ \E i \in P : vOut[2].minimum = conf[i]
            /\ \A i \in P : ~RatioLess(conf[i], vOut[2].minimum)
            /\ \E i \in P : vOut[2].maximum = conf[i]
            /\ \A i \in P : ~RatioLess(vOut[2].maximum, conf[i])
            /\ vOut[2].belowThreshold =
                   Cardinality({i \in P : conf[i][2] < 8})
            /\ vIn = ExampleEvents =>
                   /\ SameRatio(vOut[2].average, Ratio(9 + 4 + 2, 30))
                   /\ vOut[2].belowThreshold = 2

\* C22 witness: the statistics of the example were computed: a confidence of
\* exactly 0.8 aside, two of its three present confidences are below 0.8
C22_Witness ==
    /\ vOut # NotRun
    /\ vIn = ExampleEvents
    /\ vOut[2].belowThreshold = 2
    /\ vOut[2].minimum = Tenths(2)
    /\ vOut[2].maximum = Tenths(9)

----------------------------------------------------------------------------
(* JSON texts: JSON.stringify and JSON.parse *)

\* an array and an object (its members in insertion order, as <<key, value>>)
Arr(elems)       == <<"array", elems>>
Members(members) == <<"object", members>>

\* a string holding JSON text, as its sequence of tokens; a number, a string
\* literal and null are tokens by themselves
Text(tokens) == <<"text", tokens>>
Punct(c) == <<"punct", c>>
LB    == Punct("[")
RB    == Punct("]")
LC    == Punct("{")
RC    == Punct("}")
COMMA == Punct(",")
COLON == Punct(":")

RECURSIVE Join(_)
\* the texts of a list, separated by commas
Join(texts) ==
    IF texts = <<>> THEN <<>>
    ELSE IF Len(texts) = 1 THEN texts[1]
    ELSE texts[1] \o <<COMMA>> \o Join(Tail(texts))

RECURSIVE Stringify(_)
\* JSON.stringify(v) of a value without cycles: NaN, and undefined inside an
\* array, are written as null
Stringify(v) ==
    IF v[1] = "array"
    THEN <<LB>> \o Join([i \in DOMAIN v[2] |-> Stringify(v[2][i])]) \o <<RB>>
    ELSE IF v[1] = "object"
    THEN <<LC>>
         \o Join([i \in DOMAIN v[2] |->
                    <<Str(v[2][i][1]), COLON>> \o Stringify(v[2][i][2])])
         \o <<RC>>
    ELSE IF v = NaN \/ v = Undefined THEN <<Null>>
    ELSE <<v>>

Parsed(val, rest) == [ok |-> TRUE, val |-> val, rest |-> rest]
SyntaxError       == [ok |-> FALSE, val |-> Null, rest |-> <<>>]

RECURSIVE ParseValue(_)
RECURSIVE ParseElements(_, _)
RECURSIVE ParseMembers(_, _)

\* one JSON value at the head of the tokens
ParseValue(ts) ==
    IF ts = <<>> THEN SyntaxError
    ELSE IF Head(ts) = LB
    THEN IF Len(ts) >= 2 /\ ts[2] = RB
         THEN Parsed(Arr(<<>>), SubSeq(ts, 3, Len(ts)))
         ELSE ParseElements(Tail(ts), <<>>)
    ELSE IF Head(ts) = LC
    THEN IF Len(ts) >= 2 /\ ts[2] = RC
         THEN Parsed(Members(<<>>), SubSeq(ts, 3, Len(ts)))
         ELSE ParseMembers(Tail(ts), <<>>)
    ELSE IF Head(ts)[1] \in {"number", "string", "null"}
    THEN Parsed(Head(ts), Tail(ts))
    ELSE SyntaxError

\* the elements of an array after "[": a value, then "," or "]"
ParseElements(ts, acc) ==
    LET e == ParseValue(ts)
    IN  IF ~e.ok \/ e.rest = <<>> THEN SyntaxError
        ELSE IF Head(e.rest) = RB
        THEN Parsed(Arr(Append(acc, e.val)), Tail(e.rest))
        ELSE IF Head(e.rest) = COMMA
        THEN ParseElements(Tail(e.rest), Append(acc, e.val))
        ELSE SyntaxError

\* the members of an object after "{": a key, ":", a value, then "," or "}"
\* (the keys offered are distinct, so no member replaces an earlier one)
ParseMembers(ts, acc) ==
    IF Len(ts) < 2 \/ Head(ts)[1] # "string" \/ ts[2] # COLON
    THEN SyntaxError
    ELSE LET e == ParseValue(SubSeq(ts, 3, Len(ts)))
             m == Append(acc, <<ts[1][2], e.val>>)
         IN  IF ~e.ok \/ e.rest = <<>> THEN SyntaxError
             ELSE IF Head(e.rest) = RC
             THEN Parsed(Members(m), Tail(e.rest))
             ELSE IF Head(e.rest) = COMMA
             THEN ParseMembers(Tail(e.rest), m)
             ELSE SyntaxError

\* JSON.parse(text): one value and nothing after it, else it throws
JsonParse(text) ==
    LET p == ParseValue(text[2])
    IN  IF p.ok /\ p.rest = <<>> THEN p ELSE SyntaxError

----------------------------------------------------------------------------
(* parseHomography, stringifyHomography, parseRoiMap *)

\* !homographyString
NoText(t) == Falsy(t) \/ t = Text(<<>>)

parseHomography(homographyString) ==
    IF NoText(homographyString) THEN Null
    ELSE LET p == JsonParse(homographyString)
         IN  IF p.ok THEN p.val ELSE Null

stringifyHomography(matrix) ==
    IF Falsy(matrix) THEN Null ELSE Text(Stringify(matrix))

\* JSON.parse of something that is no string parses its String(...)
parseRoiMap(roiMapString) ==
    IF roiMapString = Null THEN Null
    ELSE LET p == JsonParse(roiMapString)
         IN  IF p.ok THEN p.val ELSE Null

----------------------------------------------------------------------------
(* SpecCodec: matrices and region maps written and read back, texts read *)

MatrixEntries == {Num(0), Num(1), NaN}

Matrices ==
    UNION {{Arr([r \in 1..rows |-> Arr(m[r])]) :
                m \in [1..rows -> [1..cols -> MatrixEntries]]} :
              rows \in 1..MaxDim, cols \in 1..MaxDim}

RegionA == Members(<<<<"id", Str("a")>>, <<"kind", Str("ocr")>>,
                     <<"x", Num(0)>>, <<"rotation", Num(1)>>>>)
RegionB == Members(<<<<"id", Str("b")>>, <<"kind", Str("photo")>>,
                     <<"points", Arr(<<Num(0), Num(1)>>)>>>>)

RoiMaps ==
    UNION {{Members(<<<<"regions", Arr(regions)>>>>) :
                regions \in [1..n -> {RegionA, RegionB}]} : n \in 0..MaxDim}

\* a text with one of its tokens lost
Damaged(text) ==
    {Text(SubSeq(text[2], 1, i - 1) \o SubSeq(text[2], i + 1, Len(text[2]))) :
        i \in DOMAIN text[2]}

\* texts that are JSON but neither a matrix nor a region map
OtherTexts ==
    {Text(Stringify(v)) :
        v \in {Num(1), Str("a"), Null, Arr(<<Num(1)>>),
               Arr(<<Arr(<<Num(1)>>), Arr(<<Num(0), Num(1)>>)>>),
               Members(<<<<"a", Num(1)>>>>)}}

StoredTexts ==
    LET written == {Text(Stringify(v)) :
                       v \in {Arr(<<Arr(<<Num(1), Num(0)>>)>>),
                              Members(<<<<"regions", Arr(<<RegionA>>)>>>>)}}
    IN  written \cup UNION {Damaged(t) : t \in written}
            \cup OtherTexts \cup {Text(<<>>), Null}

IsText(v) == v[1] = "text"

InitCodec ==
    /\ InitManager
    /\ InitStore
    /\ InitProvider
    /\ res = NoCall
    /\ vIn \in Matrices \cup RoiMaps \cup StoredTexts
    /\ vOut = NotRun

\* the text to read: the one just written, or the one handed in
TextToRead == IF vOut # NotRun THEN vOut ELSE vIn

StringifyHomography ==
    /\ vOut = NotRun
    /\ vIn[1] = "array"
    /\ vOut' = stringifyHomography(vIn)
    /\ UNCHANGED <<vIn, mgrVars, storeVars, res, provVars>>

\* JSON.stringify(roiMap), as the template's roi_map_json is written
StringifyRoiMap ==
    /\ vOut = NotRun
    /\ vIn[1] = "object"
    /\ vOut' = Text(Stringify(vIn))
    /\ UNCHANGED <<vIn, mgrVars, storeVars, res, provVars>>

ParseHomography ==
    /\ res = NoCall
    /\ IsText(TextToRead) \/ TextToRead = Null
    /\ Settle("parseHomography", "ok", FALSE, parseHomography(TextToRead))
    /\ UNCHANGED <<vIn, vOut, mgrVars, storeVars, provVars>>

ParseRoiMap ==
    /\ res = NoCall
    /\ IsText(TextToRead) \/ TextToRead = Null
    /\ Settle("parseRoiMap", "ok", FALSE, parseRoiMap(TextToRead))
    /\ UNCHANGED <<vIn, vOut, mgrVars, storeVars, provVars>>

NextCodec ==
    \/ StringifyHomography
    \/ StringifyRoiMap
    \/ ParseHomography
    \/ ParseRoiMap

SpecCodec == InitCodec /\ [][NextCodec]_vars

----------------------------------------------------------------------------
(* Claims about the codec, checked under SpecCodec *)

IsArr(v) == v[1] = "array"

\* a rectangular matrix of numbers
IsMatrix(v) ==
    /\ IsArr(v)
    /\ \A r \in DOMAIN v[2] :
          /\ IsArr(v[2][r])
          /\ Len(v[2][r][2]) = Len(v[2][1][2])
          /\ \A c \in DOMAIN v[2][r][2] :
                v[2][r][2][c] = NaN \/ IsNum(v[2][r][2][c])

\* a region map: an object whose regions are a list of objects
IsRoiMap(v) ==
    /\ v[1] = "object"
    /\ Len(v[2]) = 1
    /\ v[2][1][1] = "regions"
    /\ IsArr(v[2][1][2])
    /\ \A i \in DOMAIN v[2][1][2][2] : v[2][1][2][2][i][1] = "object"

EncodesMatrix(t) == IsText(t) /\ JsonParse(t).ok /\ IsMatrix(JsonParse(t).val)
EncodesRoiMap(t) == IsText(t) /\ JsonParse(t).ok /\ IsRoiMap(JsonParse(t).val)

ReadBack(op) == res.op = op /\ vOut # NotRun
ReadGiven(op) == res.op = op /\ vOut = NotRun

\* C23: parseHomography(stringifyHomography(m)) is m for every rectangular
\* numeric matrix m; a region map written as JSON and read by parseRoiMap
\* comes back with its regions in order and all their fields; and reading a
\* text that does not encode a matrix (for parseRoiMap: a region map) returns
\* null and never throws.
C23_CodecRoundTrip ==
    /\ (ReadBack("parseHomography") /\ IsMatrix(vIn)) => res.ret = vIn
    /\ (ReadBack("parseRoiMap") /\ IsRoiMap(vIn)) => res.ret = vIn
    /\ (ReadGiven("parseHomography") /\ ~EncodesMatrix(vIn)) => res.ret = Null
    /\ (ReadGiven("parseRoiMap") /\ ~EncodesRoiMap(vIn)) => res.ret = Null
    /\ res.outcome = "ok"

----------------------------------------------------------------------------
(* Claims about the correction workflow, checked under SpecFlags *)

\* C24: markAsCorrected(id, v) sets corrected to 1 and, for every string v it
\* is given, the empty one included, overwrites value with v;
\* markAsCorrected(id) without a value sets corrected to 1 and leaves value as
\* it is; either way no other column of the event and no other row changes.
C24_MarkAsCorrected ==
    [][\A id \in DOMAIN recog_events, v \in CorrectedValues :
          (EventsMarkAsCorrected(id, v) /\ res'.outcome = "ok") =>
              /\ recog_events'[id]["corrected"] = Num(1)
              /\ recog_events'[id]["value"] =
                     (IF v = Undefined THEN recog_events[id]["value"] ELSE v)
              /\ SameBut(recog_events'[id], recog_events[id],
                         {"corrected", "value"})
              /\ \A other \in DOMAIN recog_events \ {id} :
                     /\ other \in DOMAIN recog_events'
                     /\ recog_events'[other] = recog_events[other]
              /\ DOMAIN recog_events' = DOMAIN recog_events
              /\ UNCHANGED <<templates, images, records>>]_vars

----------------------------------------------------------------------------
(* DatabaseProvider: initializeDatabase, reinitialize, the mount effect and *)
(* its cleanup, useRepositories                                            *)

Calls == 1..MaxCalls

\* err instanceof Error ? err.message : 'Unknown database error'
InitError == Str("Unknown database error")

\* mutant of Continue: the run reports ready however initialize() settled
ContinueAlwaysReady(r) ==
    IF runs'[r].pc \in {"done", "failed"}
    THEN isReady' = TRUE /\ isLoading' = FALSE /\ UNCHANGED error
    ELSE UNCHANGED <<isReady, isLoading, error>>

\* what initializeDatabase does when the step just taken settled the
\* initialize() it awaits: setIsReady(true) after it resolved, setError(...)
\* in the catch after it rejected, setIsLoading(false) in the finally
Continue(r) ==
    IF runs'[r].pc = "done"
    THEN isReady' = TRUE /\ isLoading' = FALSE /\ UNCHANGED error
    ELSE IF runs'[r].pc = "failed"
    THEN error' = InitError /\ isLoading' = FALSE /\ UNCHANGED isReady
    ELSE UNCHANGED <<isReady, isLoading, error>>

\* initializeDatabase() up to its await
InitializeDatabase(r) ==
    /\ isLoading' = TRUE
    /\ error' = Null
    /\ Initialize(r)

\* the effect of the first render
Mount ==
    /\ mounted = "not yet"
    /\ mounted' = "mounted"
    /\ InitializeDatabase(1)
    /\ UNCHANGED isReady

\* reinitialize() of the context value
Reinitialize(r) ==
    /\ mounted = "mounted"
    /\ isReady' = FALSE
    /\ InitializeDatabase(r)
    /\ UNCHANGED mounted

\* a component below the provider calls useRepositories() and then a
\* repository: the hook throws unless isReady
UseRepositories ==
    /\ mounted = "mounted"
    /\ isReady
    /\ TemplatesFindById(T1["template_id"])

\* the cleanup of the effect: databaseManager.close().catch(console.error)
Unmount ==
    /\ mounted = "mounted"
    /\ mounted' = "unmounted"
    /\ Close
    /\ UNCHANGED <<isReady, isLoading, error>>

----------------------------------------------------------------------------
(* SpecProvider: a mounted provider, reinitialize() called at any moment   *)

InitProviderRuns ==
    /\ db = 0
    /\ conns = <<>>
    /\ schema = {}
    /\ runs = [r \in Calls |-> NoRun]
    /\ closing = 0
    /\ ready = FALSE
    /\ InitStore
    /\ InitProvider
    /\ InitUtil
    /\ res = NoCall

\* an await inside a run's initialize() settles and the run goes on: each
\* step of the manager is followed by what initializeDatabase does with it
NextProvider ==
    \/ Mount
    \/ \E r \in Calls : Reinitialize(r)
    \/ \E r \in Calls : OpenResolves(r) /\ Continue(r) /\ UNCHANGED mounted
    \/ \E r \in Calls : OpenRejects(r) /\ Continue(r) /\ UNCHANGED mounted
    \/ \E r \in Calls : PragmaResolves(r) /\ Continue(r) /\ UNCHANGED mounted
    \/ \E r \in Calls : PragmaRejects(r) /\ Continue(r) /\ UNCHANGED mounted
    \/ \E r \in Calls : ExecResolves(r) /\ Continue(r) /\ UNCHANGED mounted
    \/ \E r \in Calls : ExecRejects(r) /\ Continue(r) /\ UNCHANGED mounted
    \/ UseRepositories

SpecProvider == InitProviderRuns /\ [][NextProvider]_vars

----------------------------------------------------------------------------
(* SpecUnmount: a provider that is mounted once and unmounted at any       *)
(* moment, and a repository used after both calls completed                *)

AllCompleted == closing = 0 /\ \A r \in DOMAIN runs : Settled(r)

\* a screen that still holds the repositories calls one
CallAfterUnmount ==
    /\ mounted = "unmounted"
    /\ AllCompleted
    /\ TemplatesFindById(T1["template_id"])

NextUnmount ==
    \/ Mount
    \/ OpenResolves(1) /\ Continue(1) /\ UNCHANGED mounted
    \/ OpenRejects(1) /\ Continue(1) /\ UNCHANGED mounted
    \/ PragmaResolves(1) /\ Continue(1) /\ UNCHANGED mounted
    \/ PragmaRejects(1) /\ Continue(1) /\ UNCHANGED mounted
    \/ ExecResolves(1) /\ Continue(1) /\ UNCHANGED mounted
    \/ ExecRejects(1) /\ Continue(1) /\ UNCHANGED mounted
    \/ Unmount
    \/ CloseResolves /\ UNCHANGED provVars
    \/ CallAfterUnmount

SpecUnmount == InitProviderRuns /\ [][NextUnmount]_vars

----------------------------------------------------------------------------
(* Claims about the provider *)

\* C25: whenever the provider's isReady is true, under any interleaving of
\* the first initialization, reinitialize() calls and their completions, the
\* storage handle is open and the schema is created, so that a repository
\* obtained through useRepositories never fails as not initialized.
C25_ReadyMeansOpen ==
    /\ isReady =>
          /\ db # 0
          /\ conns[db].open
          /\ schema = AllSchema
    /\ res.op = "templates.findById" => res.outcome = "ok"

\* C25 witness: a repository call made through useRepositories succeeded
\* while a reinitialize() was in flight on a second handle
C25_Witness ==
    /\ isReady
    /\ res.op = "templates.findById"
    /\ res.outcome = "ok"
    /\ Len(conns) = 2
    /\ \E r \in Calls : runs[r].pc = "exec"

\* C26: once every initializeDatabase run that was started has completed,
\* isLoading is false and exactly one of isReady = true and error # null
\* holds, also when reinitialize() was called while an earlier run was in
\* flight and one of the two succeeded and the other failed.
C26_SettledProviderState ==
    (mounted = "mounted" /\ \A r \in DOMAIN runs : Settled(r)) =>
        /\ ~isLoading
        /\ isReady # (error # Null)

\* C27: if the provider unmounts, and so close() is called, while its
\* initialize() is in flight, then after both calls completed no handle is
\* open: the manager holds none and a repository call fails as not
\* initialized.
C27_CloseDuringInitialize ==
    (mounted = "unmounted" /\ AllCompleted) =>
        /\ db = 0
        /\ \A h \in DOMAIN conns : ~conns[h].open
        /\ res.op = "templates.findById" => res.outcome = "not_initialized"

====
